---- MODULE Spec2Model ----
(***************************************************************************)
(* Scheduled ingestion jobs of ronan-wf/functionApps: token lifecycle      *)
(* (SmartFlow, Smappee UAE, Fronius), retrying fetch (Fronius), paginated  *)
(* fetch (Octopus), the loops over units of work, the gateway / sensor     *)
(* resolver (Smappee), saving and loading the token file, and the          *)
(* conflict-safe insert into the shared time-series table.                 *)
(***************************************************************************)
EXTENDS Integers, Naturals, Sequences, FiniteSets, TLC

VARIABLES
    vendor,         \* which integration's function app this process runs
    now,            \* wall clock, epoch seconds (time.time())
    ticks,          \* number of clock advances so far (bounds the run)
    issued,         \* number of tokens the vendor's token endpoint has issued
    slot,           \* the persisted token file: NoFile or the credential written
    token_info,     \* the in-memory credential dictionary
    pc,             \* position of the timer handler
    grants,         \* grant exchanges requested by the current invocation
    entry,          \* credential held before and after the load step, the clock then
    slot0,          \* content of the token file when the invocation started
    ret,            \* access token returned by get_active_token (0: none)
    data_requests,  \* data-endpoint requests made by the current invocation
    store_writes,   \* database insert calls made by the current invocation
    run_end,        \* how the current invocation ended ("none" while running)
    responses,      \* what the data endpoint answers to successive attempts
    fetch,          \* result of the last get_aggrdata call
    store,          \* rows of the destination table
    pre_store,      \* rows of the table before the last write
    batch,          \* row sequence handed to the last write
    write_ok,       \* "none", or how the last write ended: "ok" / "failed"
    repeated,       \* the last write repeated the batch of the write before it
    db_called,      \* the last write opened a database connection
    write_ret,      \* what the write handed back to the handler
    pages,          \* Octopus API: the page each URL answers with
    variant,        \* which copy of the fetch runs: "function" or "manual"
    next_url,       \* URL the loop requests next (0: None)
    all_results,    \* results collected so far
    requested,      \* URLs requested so far, in order
    page_pc,        \* position of the client's processing
    parsed,         \* output of _parse_consumption_results
    page_writes,    \* insert calls made for the client
    integration,    \* job whose loop over units runs
    unit_events,    \* what happens to each unit of the run, in loop order
    unit_idx,       \* loop position: the unit handled next
    processed,      \* units fetched and processed so far
    units_pc,       \* "idle", "loop", "done", or "aborted"
    service_locations,   \* Smappee: slid -> client_id, location_id (dict order)
    sensor_index,        \* slid -> sensor names in consumptionIndex order
    sensor_gateway_map,  \* slid -> entries built by _get_gateway_sensor_info
    new_gateway_counter, \* (client_id, location_id) -> gateways created
    res_idx,             \* loop position in service_locations
    res_pc,              \* "idle", "loop" or "done"
    query_failed,        \* slids whose store query failed in this pass
    first_map,           \* result of the pass before this one
    first_failed,        \* slids whose store query failed in that pass
    pass,                \* number of the resolution pass running
    saver,          \* integration whose save of the credential runs
    save_cred,      \* token of the credential being saved
    save_file,      \* the token file on disk
    save_tmp,       \* the temporary file beside it
    save_pc,        \* position inside the save, or "crashed"
    norm_fn,        \* normalizer applied last ("none" before the first call)
    norm_in,        \* payload handed to it
    norm_ts,        \* clock reading of that call
    norm_out,       \* rows it returned
    norm_raised,    \* the call ended with an exception instead of returning
    timer_job,      \* integration whose scheduled invocations run
    clock,          \* time of the next invocation, in half hours
    runs,           \* invocations made so far
    main,           \* times of the job's rows in the destination table
    owed,           \* times of the rows of the last invocation whose write failed
    job_pc,         \* "none", "failed" (a write failed) or "recovered"
    wr_batch,       \* writer -> rows its invocation hands to the insert
    wr_pos,         \* writer -> index of the row executemany sends next
    wr_state,       \* writer -> "running", "waiting", "committed", "failed"
    wr_table,       \* rows of the table with the transaction that holds them
    wr_init,        \* rows stored before the two invocations
    wr_waited,      \* some insert had to wait for the other transaction
    cache_vendor,   \* integration whose two invocations share the token file
    cache_tmp,      \* inode the fixed .tmp path names (0: no such file)
    cache_tok,      \* inode the token path names (0: no such file)
    cache_inodes,   \* inode -> chunks of text it holds, by credential
    cache_proc,     \* invocation -> its position, open file, offset, load
    label_n,        \* index handed to new_gateway_id (-1 before the draw)
    label_out,      \* what the call gave: its label
    hour_clock,     \* time of the next SmartFlow invocation, in half hours
    hour_runs,      \* SmartFlow invocations made so far
    hour_store,     \* SmartFlow's rows in the destination table
    hour_first,     \* natural key -> value of the first committed row with it
    hour_last       \* the last invocation: its time, its rows, its write

tokenVars == <<vendor, now, ticks, issued, slot, token_info, pc, grants, entry,
               slot0, ret, data_requests, store_writes, run_end>>
fetchVars == <<responses, fetch>>
storeVars == <<store, pre_store, batch, write_ok, repeated, db_called,
               write_ret>>
pageVars == <<pages, variant, next_url, all_results, requested, page_pc, parsed,
              page_writes>>
unitVars == <<integration, unit_events, unit_idx, processed, units_pc>>
resolveVars == <<service_locations, sensor_index, sensor_gateway_map,
                 new_gateway_counter, res_idx, res_pc, query_failed, first_map,
                 first_failed, pass>>
saveVars == <<saver, save_cred, save_file, save_tmp, save_pc>>
normVars == <<norm_fn, norm_in, norm_ts, norm_out, norm_raised>>
jobVars == <<timer_job, clock, runs, main, owed, job_pc>>
writerVars == <<wr_batch, wr_pos, wr_state, wr_table, wr_init, wr_waited>>
cacheVars == <<cache_vendor, cache_tmp, cache_tok, cache_inodes, cache_proc>>
labelVars == <<label_n, label_out>>
hourVars == <<hour_clock, hour_runs, hour_store, hour_first, hour_last>>
lateVars == <<labelVars, hourVars>>
moreVars == <<normVars, jobVars, writerVars, cacheVars, lateVars>>
otherVars == <<pageVars, unitVars, resolveVars, saveVars, moreVars>>
vars == <<tokenVars, fetchVars, storeVars, otherVars>>

----------------------------------------------------------------------------
(* Bounds of the model *)
MaxTicks == 3
MaxIssued == 2

MaxDevices == 2
MaxKeys == 2
MaxBatch == 2
MaxPages == 3
MaxUnits == 3
MaxLocs == 2
MaxStoreRows == 2
MaxChunks == 3

(* Program constants *)
MAX_RETRIES == 3
BACKOFF_SECS == 5
ACCESS_LIFETIME == 3600
REFRESH_LIFETIME == 86400
UAE_DEFAULT_EXPIRES_IN == 1800
UAE_SAFETY_MARGIN == 60

Vendors == {"smartflow", "smappee_uae", "fronius"}

\* An absent token file.
NoFile == [absent |-> TRUE]

\* A token file json.loads cannot parse.
Unparseable == [unparseable |-> TRUE]

\* A token file holding JSON that is not an object (a list).
NonObject == [json |-> "list"]

\* In a token file that holds an object: the key is missing.
MISSING == -1

\* In a token file that holds an object: a string where a number belongs.
ILL == -2

\* Clock advances between two timer firings (environment input).
Deltas == {1, 3599, 82800}

\* HTTP statuses the token endpoint answers with.
Statuses == {200, 401, 500}

\* expires_in values the Smappee token endpoint returns (-1: field absent).
ExpiresIn == {-1, 60, 61}

\* Lifetime of the JWT the Fronius endpoint returns (jwtTokenExpiration - now).
JwtLifetimes == {1, 3600}

----------------------------------------------------------------------------
(* Token endpoint *)

\* requests' Response.raise_for_status(): HTTPError for 4xx and 5xx.
raise_for_status(status) == status >= 400 /\ status < 600

\* What the token endpoint answers: status, the token it issues, the
\* expiry fields of the body.
Responses(tok) ==
    [status : Statuses, token : {tok}, expires_in : ExpiresIn,
     jwt_lifetime : JwtLifetimes]

Max(a, b) == IF a >= b THEN a ELSE b

\* A grant exchange as seen on the wire.
Request(grant, refresh_token, status) ==
    [grant |-> grant, refresh_token |-> refresh_token, status |-> status]

\* Result of one call of an integration's get_active_token.
Result(outcome, ti, sl, gr, t, loaded) ==
    [outcome |-> outcome, token_info |-> ti, slot |-> sl, grants |-> gr,
     now |-> t, loaded |-> loaded]

----------------------------------------------------------------------------
(* SmartFlow: src/smartflow/helpers/helpers.py *)

\* token_info as smartflowIngest builds it before calling get_active_token.
sf_token_info ==
    [access_token |-> 0, refresh_token |-> 0,
     access_expires |-> 0, refresh_expires |-> 0]

\* `if k in data: token_info[k] = data[k]`
sf_load_key(value, held) == IF value = MISSING THEN held ELSE value

\* Nothing is assigned for an absent or unparseable file, nor for a list
\* (no key is `in` it); from an object every key present is copied as it is.
sf_load_token_from_tmp(sl, ti) ==
    IF sl \in {NoFile, Unparseable, NonObject} THEN ti
    ELSE [access_token |-> sf_load_key(sl.access_token, ti.access_token),
          refresh_token |-> sf_load_key(sl.refresh_token, ti.refresh_token),
          access_expires |-> sf_load_key(sl.access_expires, ti.access_expires),
          refresh_expires |-> sf_load_key(sl.refresh_expires,
                                          ti.refresh_expires)]

sf_write_token_to_tmp(ti) ==
    [access_token |-> ti.access_token,
     refresh_token |-> ti.refresh_token,
     access_expires |-> ti.access_expires,
     refresh_expires |-> ti.refresh_expires]

\* Faulty variant: the two lifetimes are assigned the wrong way round.
sf_get_token_swapped(sl, ti, t, resp, use_refresh) ==
    LET req == Request(IF use_refresh THEN "refresh" ELSE "password",
                       IF use_refresh THEN ti.refresh_token ELSE 0,
                       resp.status)
        t2  == t
        ti2 == [access_token |-> resp.token,
                refresh_token |-> resp.token,
                access_expires |-> t2 + REFRESH_LIFETIME,
                refresh_expires |-> t2 + ACCESS_LIFETIME]
    IN  IF raise_for_status(resp.status)
        THEN Result("raised", ti, sl, <<req>>, t2, ti)
        ELSE Result("returned", ti2, sf_write_token_to_tmp(ti2), <<req>>, t2, ti)

\* fetch_token + get_token: one POST; on HTTPError nothing is assigned.
sf_get_token(sl, ti, t, resp, use_refresh) ==
    LET req == Request(IF use_refresh THEN "refresh" ELSE "password",
                       IF use_refresh THEN ti.refresh_token ELSE 0,
                       resp.status)
        t2  == t
        ti2 == [access_token |-> resp.token,
                refresh_token |-> resp.token,
                access_expires |-> t2 + ACCESS_LIFETIME,
                refresh_expires |-> t2 + REFRESH_LIFETIME]
    IN  IF raise_for_status(resp.status)
        THEN Result("raised", ti, sl, <<req>>, t2, ti)
        ELSE Result("returned", ti2, sf_write_token_to_tmp(ti2), <<req>>, t2, ti)

\* Faulty variant: the access expiry is tested with > instead of >=.
sf_get_active_token_exclusive(sl, ti_in, t, resp) ==
    LET ti == sf_load_token_from_tmp(sl, ti_in)
    IN  IF ti.access_token = 0
        THEN sf_get_token(sl, ti, t, resp, FALSE)
        ELSE IF t >= ti.refresh_expires
        THEN sf_get_token(sl, ti, t, resp, FALSE)
        ELSE IF t > ti.access_expires
        THEN sf_get_token(sl, ti, t, resp, TRUE)
        ELSE Result("returned", ti, sl, <<>>, t, ti)

\* Faulty variant: the access expiry is tested before the refresh expiry.
sf_get_active_token_access_first(sl, ti_in, t, resp) ==
    LET ti == sf_load_token_from_tmp(sl, ti_in)
    IN  IF ti.access_token = 0
        THEN sf_get_token(sl, ti, t, resp, FALSE)
        ELSE IF t >= ti.access_expires
        THEN sf_get_token(sl, ti, t, resp, TRUE)
        ELSE IF t >= ti.refresh_expires
        THEN sf_get_token(sl, ti, t, resp, FALSE)
        ELSE Result("returned", ti, sl, <<>>, t, ti)

\* `now >= x` raises TypeError when x is a string.
\* The tests are made in the order of the if / elif chain.
sf_get_active_token(sl, ti_in, t, resp) ==
    LET ti == sf_load_token_from_tmp(sl, ti_in)
    IN  IF ti.access_token = 0
        THEN sf_get_token(sl, ti, t, resp, FALSE)
        ELSE IF ti.refresh_expires = ILL
        THEN Result("raised", ti, sl, <<>>, t, ti)
        ELSE IF t >= ti.refresh_expires
        THEN sf_get_token(sl, ti, t, resp, FALSE)
        ELSE IF ti.access_expires = ILL
        THEN Result("raised", ti, sl, <<>>, t, ti)
        ELSE IF t >= ti.access_expires
        THEN sf_get_token(sl, ti, t, resp, TRUE)
        ELSE Result("returned", ti, sl, <<>>, t, ti)

\* Faulty variant: the token file is left where it is.
sf_clear_token_store_keeping(sl) == sl

\* token_path.unlink() when the file exists.
sf_clear_token_store(sl) == NoFile

----------------------------------------------------------------------------
(* Smappee UAE: src/smappee_uae/helpers/token_refresh.py *)

\* Module-level token_info of token_refresh.py.
uae_token_info == [access_token |-> 0, expires_at |-> 0]

\* data.get on a list raises before anything is assigned; on an object
\* access_token is assigned first (None when missing), then
\* float(data.get("expires_at") or 0), which raises on a string and leaves
\* expires_at as it was.
uae_load_token_from_tmp(sl, ti) ==
    IF sl \in {NoFile, Unparseable, NonObject} THEN ti
    ELSE [access_token |-> IF sl.access_token = MISSING THEN 0
                           ELSE sl.access_token,
          expires_at |-> IF sl.expires_at = MISSING THEN 0
                         ELSE IF sl.expires_at = ILL THEN ti.expires_at
                         ELSE sl.expires_at]

uae_write_token_to_tmp(ti) ==
    [access_token |-> ti.access_token, expires_at |-> ti.expires_at]

uae_is_token_valid(ti, t) ==
    ti.access_token # 0 /\ t < ti.expires_at

\* Faulty variant: a refused exchange resets the cached credential.
uae_get_token_resetting(sl, ti, t, resp) ==
    LET req == Request("password", 0, resp.status)
        expires_in == IF resp.expires_in = -1 THEN UAE_DEFAULT_EXPIRES_IN
                      ELSE resp.expires_in
        ti2 == [access_token |-> resp.token,
                expires_at |-> t + Max(expires_in - UAE_SAFETY_MARGIN, 0)]
    IN  IF raise_for_status(resp.status)
        THEN Result("raised", uae_token_info, sl, <<req>>, t, ti)
        ELSE Result("returned", ti2, uae_write_token_to_tmp(ti2), <<req>>, t, ti)

uae_get_token(sl, ti, t, resp) ==
    LET req == Request("password", 0, resp.status)
        expires_in == IF resp.expires_in = -1 THEN UAE_DEFAULT_EXPIRES_IN
                      ELSE resp.expires_in
        t2  == t
        ti2 == [access_token |-> resp.token,
                expires_at |-> t2 + Max(expires_in - UAE_SAFETY_MARGIN, 0)]
    IN  IF raise_for_status(resp.status)
        THEN Result("raised", ti, sl, <<req>>, t2, ti)
        ELSE Result("returned", ti2, uae_write_token_to_tmp(ti2), <<req>>, t2, ti)

uae_get_active_token(sl, ti_in, t, resp) ==
    LET ti == uae_load_token_from_tmp(sl, ti_in)
    IN  IF ~ uae_is_token_valid(ti, t)
        THEN uae_get_token(sl, ti, t, resp)
        ELSE Result("returned", ti, sl, <<>>, t, ti)

----------------------------------------------------------------------------
(* Fronius: src/froniusSolar/helpers/token_refresh.py *)

\* token_info as froniusIngest builds it before calling get_active_token.
fr_token_info == [jwt_token |-> 0, refresh_token |-> 0, jwt_expires |-> 0]

fr_write_token_to_file(ti) ==
    [jwt_token |-> ti.jwt_token, refresh_token |-> ti.refresh_token,
     jwt_expires |-> ti.jwt_expires]

\* fetch_token + get_token: POST (password) or PATCH .../<refresh_token>.
fr_get_token(sl, ti, t, resp, use_refresh) ==
    LET req == Request(IF use_refresh THEN "refresh" ELSE "password",
                       IF use_refresh THEN ti.refresh_token ELSE 0,
                       resp.status)
        t2  == t
        ti2 == [jwt_token |-> resp.token,
                refresh_token |-> resp.token,
                jwt_expires |-> t2 + resp.jwt_lifetime]
    IN  IF raise_for_status(resp.status)
        THEN Result("raised", ti, sl, <<req>>, t2, ti)
        ELSE Result("returned", ti2, fr_write_token_to_file(ti2), <<req>>, t2, ti)

\* Faulty variant: a held token is refreshed whether or not it has expired.
fr_get_active_token_eager(sl, ti, t, resp) ==
    IF ti.jwt_token = 0
    THEN fr_get_token(sl, ti, t, resp, FALSE)
    ELSE fr_get_token(sl, ti, t, resp, TRUE)

\* Faulty variant: an expired token is replaced through the password grant.
fr_get_active_token_relogin(sl, ti, t, resp) ==
    IF ti.jwt_token = 0
    THEN fr_get_token(sl, ti, t, resp, FALSE)
    ELSE IF t >= ti.jwt_expires
    THEN fr_get_token(sl, ti, t, resp, FALSE)
    ELSE Result("returned", ti, sl, <<>>, t, ti)

\* The token file is written but never read: token_info is the argument.
fr_get_active_token(sl, ti, t, resp) ==
    IF ti.jwt_token = 0
    THEN fr_get_token(sl, ti, t, resp, FALSE)
    ELSE IF t >= ti.jwt_expires
    THEN fr_get_token(sl, ti, t, resp, TRUE)
    ELSE Result("returned", ti, sl, <<>>, t, ti)

----------------------------------------------------------------------------
(* Vendor-independent view of a credential *)

AccessToken(v, c) == IF v = "fronius" THEN c.jwt_token ELSE c.access_token

AccessExpires(v, c) ==
    IF v = "fronius" THEN c.jwt_expires
    ELSE IF v = "smappee_uae" THEN c.expires_at
    ELSE c.access_expires

\* Valid: a non-empty access token whose expiry lies in the future.
Valid(v, c, t) == AccessToken(v, c) # 0 /\ t < AccessExpires(v, c)

\* token_info the timer handler passes to get_active_token.
EntryTokenInfo(v, ti) ==
    IF v = "smartflow" THEN sf_token_info
    ELSE IF v = "fronius" THEN fr_token_info
    ELSE ti

get_active_token(v, sl, ti, t, resp) ==
    IF v = "smartflow" THEN sf_get_active_token(sl, ti, t, resp)
    ELSE IF v = "smappee_uae" THEN uae_get_active_token(sl, ti, t, resp)
    ELSE fr_get_active_token(sl, ti, t, resp)


----------------------------------------------------------------------------
(* Fronius data fetch: src/froniusSolar/helpers/helpers.py *)

\* What one GET of the data endpoint gives: a status, or 0 for a
\* requests.RequestException without response (timeout, connection error).
AttemptOutcomes == {200, 404, 500, 0}

\* Faulty variant: `time` is the time module, so time.sleep(wait) sleeps.
time_binding_module == "time"

\* The name `time` of helpers.py: `from datetime import datetime, timezone, time`.
time_binding == "datetime.time"

\* time.sleep exists on the time module, not on the datetime.time class.
has_sleep(binding) == binding = "time"

Pow2(n) == IF n = 0 THEN 1 ELSE IF n = 1 THEN 2 ELSE 4

NoFetch == [outcome |-> "none", payload |-> 0, requests |-> 0, waits |-> <<>>]

\* get_aggrdata from attempt `attempt` on; payload k is the body of the k-th
\* response, payload 0 is None.
RECURSIVE aggr_loop(_, _, _, _, _, _)
aggr_loop(attempt, resps, max_retries, backoff_secs, requests, waits) ==
    IF attempt > max_retries
    THEN [outcome |-> "returned", payload |-> 0,
          requests |-> requests, waits |-> waits]
    ELSE IF resps[attempt] # 0 /\ ~ raise_for_status(resps[attempt])
    THEN [outcome |-> "returned", payload |-> attempt,
          requests |-> requests + 1, waits |-> waits]
    ELSE IF attempt < max_retries
    THEN IF has_sleep(time_binding)
         THEN aggr_loop(attempt + 1, resps, max_retries, backoff_secs,
                        requests + 1,
                        Append(waits, backoff_secs * Pow2(attempt - 1)))
         ELSE [outcome |-> "raised", payload |-> 0,
               requests |-> requests + 1, waits |-> waits]
    ELSE aggr_loop(attempt + 1, resps, max_retries, backoff_secs,
                   requests + 1, waits)

get_aggrdata(resps, max_retries, backoff_secs) ==
    aggr_loop(1, resps, max_retries, backoff_secs, 0, <<>>)

Scenarios == [1..MAX_RETRIES -> AttemptOutcomes]

----------------------------------------------------------------------------
(* Timer handlers *)

Ready == pc \in {"idle", "done"}

\* One call of get_active_token with the token_info `ti`.
CallGetActiveToken(v, ti) ==
    \E resp \in Responses(issued + 1) :
      LET r == get_active_token(v, slot, ti, now, resp)
          exchanged == r.grants # <<>> /\ r.outcome = "returned"
      IN  /\ token_info' = r.token_info
          /\ slot' = r.slot
          /\ grants' = r.grants
          /\ now' = r.now
          /\ entry' = [cred |-> r.loaded, now |-> now, held |-> ti]
          /\ slot0' = slot
          /\ ret' = IF r.outcome = "returned"
                    THEN AccessToken(v, r.token_info) ELSE 0
          /\ pc' = IF r.outcome = "returned" THEN "authed" ELSE "auth_failed"
          /\ issued' = IF exchanged THEN issued + 1 ELSE issued

\* First part of a handler: build token_info and call get_active_token.
Authenticate(v) ==
    /\ vendor = v
    /\ Ready
    /\ issued < MaxIssued
    /\ CallGetActiveToken(v, EntryTokenInfo(v, token_info))
    /\ data_requests' = 0
    /\ store_writes' = 0
    /\ run_end' = "none"
    /\ UNCHANGED <<vendor, ticks, fetchVars, storeVars, otherVars>>

smartflowIngest_token == Authenticate("smartflow")

smappeeIngest_token == Authenticate("smappee_uae")

froniusIngest_token == Authenticate("fronius")

\* Faulty variant: the token error is swallowed and the handler goes on.
AuthError_swallowed ==
    /\ pc = "auth_failed"
    /\ pc' = "authed"
    /\ UNCHANGED <<vendor, now, ticks, issued, slot, token_info, grants, entry,
                   slot0, ret, data_requests, store_writes, run_end,
                   fetchVars, storeVars, otherVars>>

\* The handler's `except Exception` after get_active_token raised.
AuthError ==
    /\ pc = "auth_failed"
    /\ pc' = "done"
    /\ run_end' = "auth_error"
    /\ UNCHANGED <<vendor, now, ticks, issued, slot, token_info, grants, entry,
                   slot0, ret, data_requests, store_writes, fetchVars, storeVars, otherVars>>

\* smartflowIngest after the token: devices, usage per device, rows, insert,
\* clear_token_store; an exception of _get_devices skips the rest. A failed
\* insert raises nothing: _query_db catches it and _write_to_tsdb logs it.
smartflowIngest_pipeline ==
    /\ vendor = "smartflow"
    /\ pc = "authed"
    /\ \E dev_status \in {200, 500}, ndev \in 0..MaxDevices :
       \E nrows \in 0..ndev, committed \in BOOLEAN :
         IF raise_for_status(dev_status)
         THEN /\ data_requests' = 1
              /\ store_writes' = 0
              /\ write_ok' = "none"
              /\ slot' = slot
              /\ run_end' = "error"
         ELSE /\ data_requests' = 1 + ndev
              /\ store_writes' = IF nrows > 0 THEN 1 ELSE 0
              /\ write_ok' = IF nrows = 0 THEN "none"
                             ELSE IF committed THEN "ok" ELSE "failed"
              /\ slot' = sf_clear_token_store(slot)
              /\ run_end' = "ok"
    /\ pc' = "done"
    /\ UNCHANGED <<vendor, now, ticks, issued, token_info, grants, entry,
                   slot0, ret, fetchVars, store, pre_store, batch, repeated,
                   db_called, write_ret, otherVars>>

\* smappeeIngest after the token: metering configuration and consumption per
\* service location; the insert is commented out in the handler.
smappeeIngest_pipeline ==
    /\ vendor = "smappee_uae"
    /\ pc = "authed"
    /\ \E nloc \in 0..MaxDevices, raised \in BOOLEAN :
         /\ data_requests' = IF raised THEN nloc ELSE 2 * nloc
         /\ run_end' = IF raised THEN "error" ELSE "ok"
    /\ store_writes' = 0
    /\ pc' = "done"
    /\ UNCHANGED <<vendor, now, ticks, issued, slot, token_info, grants, entry,
                   slot0, ret, fetchVars, storeVars, otherVars>>

\* froniusIngest after the token: get_aggrdata, generate_tsdb_inserts,
\* write_to_timescale.
froniusIngest_pipeline ==
    /\ vendor = "fronius"
    /\ pc = "authed"
    /\ \E resps \in Scenarios, nrows \in 0..1 :
         LET r == get_aggrdata(resps, MAX_RETRIES, BACKOFF_SECS)
         IN  /\ data_requests' = r.requests
             /\ store_writes' = IF r.outcome = "returned" /\ r.payload # 0 /\ nrows > 0
                                THEN 1 ELSE 0
             /\ run_end' = IF r.outcome = "raised" THEN "error" ELSE "ok"
    /\ pc' = "done"
    /\ UNCHANGED <<vendor, now, ticks, issued, slot, token_info, grants, entry,
                   slot0, ret, fetchVars, storeVars, otherVars>>

\* Time passes between two firings of the timer.
Tick ==
    /\ Ready
    /\ ticks < MaxTicks
    /\ \E d \in Deltas : now' = now + d
    /\ ticks' = ticks + 1
    /\ UNCHANGED <<vendor, issued, slot, token_info, pc, grants, entry, slot0,
                   ret, data_requests, store_writes, run_end, fetchVars, storeVars, otherVars>>

InitFetchIdle ==
    /\ responses = <<>>
    /\ fetch = NoFetch

InitStoreIdle ==
    /\ store = {}
    /\ pre_store = {}
    /\ batch = <<>>
    /\ write_ok = "none"
    /\ repeated = FALSE
    /\ db_called = FALSE
    /\ write_ret = "none"

InitPagesIdle ==
    /\ pages = <<>>
    /\ variant = "function"
    /\ next_url = 0
    /\ all_results = <<>>
    /\ requested = <<>>
    /\ page_pc = "idle"
    /\ parsed = <<>>
    /\ page_writes = 0

InitUnitsIdle ==
    /\ integration = "octopus"
    /\ unit_events = <<>>
    /\ unit_idx = 0
    /\ processed = {}
    /\ units_pc = "idle"

InitResolveIdle ==
    /\ service_locations = <<>>
    /\ sensor_index = <<>>
    /\ sensor_gateway_map = <<>>
    /\ new_gateway_counter = <<>>
    /\ res_idx = 0
    /\ res_pc = "idle"
    /\ query_failed = {}
    /\ first_map = <<>>
    /\ first_failed = {}
    /\ pass = 0

\* A path at which no file exists.
NoPath == [exists |-> FALSE, cred |-> 0, len |-> 0]

InitSaveIdle ==
    /\ saver = "smartflow"
    /\ save_cred = 0
    /\ save_file = NoPath
    /\ save_tmp = NoPath
    /\ save_pc = "idle"

InitNormIdle ==
    /\ norm_fn = "none"
    /\ norm_in = <<>>
    /\ norm_ts = 0
    /\ norm_out = <<>>
    /\ norm_raised = FALSE

InitJobIdle ==
    /\ timer_job = "octopus"
    /\ clock = 0
    /\ runs = 0
    /\ main = {}
    /\ owed = {}
    /\ job_pc = "none"

InitWritersIdle ==
    /\ wr_batch = <<>>
    /\ wr_pos = <<>>
    /\ wr_state = <<>>
    /\ wr_table = {}
    /\ wr_init = {}
    /\ wr_waited = FALSE

InitCacheIdle ==
    /\ cache_vendor = "smartflow"
    /\ cache_tmp = 0
    /\ cache_tok = 0
    /\ cache_inodes = <<>>
    /\ cache_proc = <<>>

InitLabelIdle ==
    /\ label_n = 0
    /\ label_out = <<>>

\* No SmartFlow invocation yet.
NoRun == [at |-> -1, rows |-> <<>>, wrote |-> "none"]

InitHourIdle ==
    /\ hour_clock = 0
    /\ hour_runs = 0
    /\ hour_store = {}
    /\ hour_first = <<>>
    /\ hour_last = NoRun

InitLateIdle == InitLabelIdle /\ InitHourIdle

InitMoreIdle ==
    /\ InitNormIdle
    /\ InitJobIdle
    /\ InitWritersIdle
    /\ InitCacheIdle
    /\ InitLateIdle

InitOtherIdle ==
    /\ InitPagesIdle
    /\ InitUnitsIdle
    /\ InitResolveIdle
    /\ InitSaveIdle
    /\ InitMoreIdle

InitToken ==
    /\ vendor \in Vendors
    /\ now = 0
    /\ ticks = 0
    /\ issued = 0
    /\ slot = NoFile
    /\ token_info = IF vendor = "smartflow" THEN sf_token_info
                    ELSE IF vendor = "fronius" THEN fr_token_info
                    ELSE uae_token_info
    /\ pc = "idle"
    /\ grants = <<>>
    /\ entry = [cred |-> token_info, now |-> 0, held |-> token_info]
    /\ slot0 = NoFile
    /\ ret = 0
    /\ data_requests = 0
    /\ store_writes = 0
    /\ run_end = "none"

InitTokenIdle == InitToken /\ vendor = "smartflow"

Init == InitToken /\ InitFetchIdle /\ InitStoreIdle /\ InitOtherIdle

Next ==
    \/ smartflowIngest_token
    \/ smappeeIngest_token
    \/ froniusIngest_token
    \/ AuthError
    \/ smartflowIngest_pipeline
    \/ smappeeIngest_pipeline
    \/ froniusIngest_pipeline
    \/ Tick

Spec == Init /\ [][Next]_vars

----------------------------------------------------------------------------
(* get_active_token on the credentials a caller can hold *)

\* Clock values around the expiries of a credential issued at time 0.
BrokerNows == {0, 1, 3599, 3600, 3601, 86399, 86400, 86401}

\* Credentials get_token can have produced with token 1 at time 0.
BrokerCreds(v) ==
    IF v = "smartflow"
    THEN {[access_token |-> 1, refresh_token |-> 1,
           access_expires |-> ACCESS_LIFETIME,
           refresh_expires |-> REFRESH_LIFETIME]}
    ELSE IF v = "smappee_uae"
    THEN {[access_token |-> 1, expires_at |-> e] :
            e \in {0, 1, UAE_DEFAULT_EXPIRES_IN - UAE_SAFETY_MARGIN}}
    ELSE {[jwt_token |-> 1, refresh_token |-> 1, jwt_expires |-> e] :
            e \in JwtLifetimes}

EmptyTokenInfo(v) ==
    IF v = "smartflow" THEN sf_token_info
    ELSE IF v = "fronius" THEN fr_token_info
    ELSE uae_token_info

InitBroker ==
    /\ vendor \in Vendors
    /\ now \in BrokerNows
    /\ ticks = 0
    /\ issued = 1
    /\ slot \in {NoFile} \cup BrokerCreds(vendor)
    /\ token_info \in {EmptyTokenInfo(vendor)} \cup BrokerCreds(vendor)
    /\ pc = "call"
    /\ grants = <<>>
    /\ entry = [cred |-> token_info, now |-> now,
                held |-> token_info]
    /\ slot0 = slot
    /\ ret = 0
    /\ data_requests = 0
    /\ store_writes = 0
    /\ run_end = "none"
    /\ InitFetchIdle
    /\ InitStoreIdle
    /\ InitOtherIdle

BrokerCall(v) ==
    /\ vendor = v
    /\ pc = "call"
    /\ CallGetActiveToken(v, token_info)
    /\ UNCHANGED <<vendor, ticks, data_requests, store_writes, run_end,
                   fetchVars, storeVars, otherVars>>

sf_call == BrokerCall("smartflow")

uae_call == BrokerCall("smappee_uae")

fr_call == BrokerCall("fronius")

NextBroker == sf_call \/ uae_call \/ fr_call

SpecBroker == InitBroker /\ [][NextBroker]_vars

----------------------------------------------------------------------------
(* get_active_token of a fresh process on every content of the token file *)

\* Contents of the token file: absent, unparseable, a list, or an object
\* whose keys are present and well-typed, missing, or ill-typed.
SlotContents(v) ==
    {NoFile, Unparseable, NonObject} \cup
    IF v = "smartflow"
    THEN [access_token : {1, MISSING}, refresh_token : {1, MISSING},
          access_expires : {ACCESS_LIFETIME, MISSING, ILL},
          refresh_expires : {REFRESH_LIFETIME, MISSING, ILL}]
    ELSE [access_token : {1, MISSING, ILL},
          expires_at : {UAE_DEFAULT_EXPIRES_IN - UAE_SAFETY_MARGIN,
                        MISSING, ILL}]

InitLoad ==
    /\ vendor \in {"smartflow", "smappee_uae"}
    /\ now \in {0, 1, ACCESS_LIFETIME}
    /\ ticks = 0
    /\ issued = 1
    /\ slot \in SlotContents(vendor)
    /\ token_info = EmptyTokenInfo(vendor)
    /\ pc = "call"
    /\ grants = <<>>
    /\ entry = [cred |-> token_info, now |-> now,
                held |-> token_info]
    /\ slot0 = slot
    /\ ret = 0
    /\ data_requests = 0
    /\ store_writes = 0
    /\ run_end = "none"
    /\ InitFetchIdle
    /\ InitStoreIdle
    /\ InitOtherIdle

NextLoad == sf_call \/ uae_call

SpecLoad == InitLoad /\ [][NextLoad]_vars

----------------------------------------------------------------------------
(* get_aggrdata on every answer pattern of the data endpoint *)

InitFetch ==
    /\ InitTokenIdle
    /\ InitStoreIdle
    /\ InitOtherIdle
    /\ responses \in Scenarios
    /\ fetch = NoFetch

call_get_aggrdata ==
    /\ fetch.outcome = "none"
    /\ fetch' = get_aggrdata(responses, MAX_RETRIES, BACKOFF_SECS)
    /\ UNCHANGED <<responses, tokenVars, storeVars, otherVars>>

NextFetch == call_get_aggrdata

SpecFetch == InitFetch /\ [][NextFetch]_vars

----------------------------------------------------------------------------
(* Destination table and the inserts *)

CLIENT_ID == "CTa9Xz7FbL2"
LOCATION_ID == "Lpx4WvbHkq"

\* The k-th natural key of the model: keys differ in sensor and in time.
Row(k, value, note) ==
    [time |-> (k + 1) \div 2, client_id |-> CLIENT_ID,
     location_id |-> LOCATION_ID, metric |-> "solar", value |-> value,
     gateway |-> "A", sensor |-> IF k % 2 = 1 THEN 1 ELSE 2, note |-> note]

\* Values and notes of the rows; a note is free text (a sensor name) and may
\* hold a tab.
Payloads == {<<10, "L1">>, <<20, "L1">>, <<10, "L2">>, <<10, "Pump\tA">>}

Rows == {Row(k, p[1], p[2]) : k \in 1..MaxKeys, p \in Payloads}

\* ON CONFLICT (time, client_id, location_id, metric, gateway, sensor)
NaturalKey(r) ==
    <<r.time, r.client_id, r.location_id, r.metric, r.gateway, r.sensor>>

\* Faulty variant: a plain INSERT into a table without the unique index.
InsertPlain(tbl, r) == tbl \cup {r}

\* Faulty variant: ON CONFLICT ... DO UPDATE, the incoming row wins.
InsertOnConflictDoUpdate(tbl, r) ==
    {s \in tbl : NaturalKey(s) # NaturalKey(r)} \cup {r}

\* One INSERT ... ON CONFLICT (natural key) DO NOTHING.
InsertOnConflictDoNothing(tbl, r) ==
    IF \E s \in tbl : NaturalKey(s) = NaturalKey(r) THEN tbl ELSE tbl \cup {r}

\* cursor.executemany: the statement once per parameter row, in order.
RECURSIVE executemany(_, _)
executemany(tbl, rows) ==
    IF rows = <<>> THEN tbl
    ELSE executemany(InsertOnConflictDoNothing(tbl, Head(rows)), Tail(rows))

\* The pieces of a note between its tabs.
TabSplit ==
    ("L1" :> <<"L1">>) @@ ("L2" :> <<"L2">>) @@ ("Pump\tA" :> <<"Pump", "A">>)

\* The line streamed for a row: its eight values in the column order of the
\* COPY statement, joined by tabs; no value is escaped.
copy_line(r) ==
    <<r.time, r.sensor, r.value, r.gateway, r.client_id, r.location_id>>
        \o TabSplit[r.note] \o <<r.metric>>

\* COPY ... FROM stdin WITH (FORMAT text) reads a line of eight fields as
\* (time, sensor, value, gateway, client_id, location_id, note, metric).
copy_row(line) ==
    [time |-> line[1], sensor |-> line[2], value |-> line[3],
     gateway |-> line[4], client_id |-> line[5], location_id |-> line[6],
     note |-> line[7], metric |-> line[8]]

\* COPY into the temp table _ingest_main, which has no unique index: a line
\* with more than eight fields is rejected ("extra data after last expected
\* column") and the statement raises.
copy_to_temp(rows) ==
    IF \E i \in 1..Len(rows) : Len(copy_line(rows[i])) # 8
    THEN [ok |-> FALSE, rows |-> <<>>]
    ELSE [ok |-> TRUE,
          rows |-> [i \in 1..Len(rows) |-> copy_row(copy_line(rows[i]))]]

\* INSERT INTO main SELECT ... FROM _ingest_main ON CONFLICT DO NOTHING:
\* the rows of the freshly loaded temp table are scanned in load order.
RECURSIVE insert_select(_, _)
insert_select(tbl, staged) ==
    IF staged = <<>> THEN tbl
    ELSE insert_select(InsertOnConflictDoNothing(tbl, Head(staged)), Tail(staged))

UniqueKeys(tbl) ==
    \A r1, r2 \in tbl : NaturalKey(r1) = NaturalKey(r2) => r1 = r2

Batches == UNION {[1..n -> Rows] : n \in 0..MaxBatch}

\* Faulty variant: an empty batch is sent to the database like any other.
Write_always_connects(rows, committed, result) ==
    /\ pre_store' = store
    /\ batch' = rows
    /\ write_ret' = "None"
    /\ db_called' = TRUE
    /\ store' = IF committed THEN result ELSE store
    /\ write_ok' = IF committed THEN "ok" ELSE "failed"
    /\ repeated' = (committed /\ batch = rows /\ write_ok = "ok")
    /\ UNCHANGED <<tokenVars, fetchVars, otherVars>>

\* A write: nothing on an empty batch; otherwise one transaction that is
\* committed as a whole or, on any exception, not at all. _query_db answers
\* False on an exception, but the write functions only log it and end
\* without a return statement, and octopusEnergy drops the answer: the
\* handler holds None whatever happened.
Write(rows, committed, result) ==
    /\ pre_store' = store
    /\ batch' = rows
    /\ write_ret' = "None"
    /\ IF rows = <<>>
       THEN /\ store' = store
            /\ write_ok' = "ok"
            /\ db_called' = FALSE
            /\ repeated' = (batch = rows /\ write_ok = "ok")
       ELSE /\ db_called' = TRUE
            /\ store' = IF committed THEN result ELSE store
            /\ write_ok' = IF committed THEN "ok" ELSE "failed"
            /\ repeated' = (committed /\ batch = rows /\ write_ok = "ok")
    /\ UNCHANGED <<tokenVars, fetchVars, otherVars>>

\* write_to_timescale (Fronius), _write_to_tsdb (SmartFlow) and the insert of
\* octopusEnergy: _query_db(..., fetch=False, many=True).
write_to_timescale ==
    \E rows \in Batches, committed \in BOOLEAN :
        Write(rows, committed, executemany(store, rows))

\* _write_to_tsdb (Smappee): COPY to a temp table, then INSERT ... SELECT.
smappee_write_to_tsdb ==
    \E rows \in Batches, committed \in BOOLEAN :
        LET staged == copy_to_temp(rows)
        IN  Write(rows, committed /\ staged.ok,
                  insert_select(store, staged.rows))

InitStore ==
    /\ InitTokenIdle
    /\ InitFetchIdle
    /\ InitOtherIdle
    /\ store \in {t \in SUBSET Rows : UniqueKeys(t)}
    /\ pre_store = store
    /\ batch = <<>>
    /\ write_ok = "none"
    /\ repeated = FALSE
    /\ db_called = FALSE
    /\ write_ret = "none"

NextStore == write_to_timescale \/ smappee_write_to_tsdb

SpecStore == InitStore /\ [][NextStore]_vars

----------------------------------------------------------------------------
(* Octopus Energy: one client of octopusEnergy (function_app.py) and of     *)
(* main (octopusEnergyManual/main.py)                                       *)

\* results arrays a page can carry; the items are consumption readings.
PageResults == {<<>>, <<1>>, <<2, 1>>}

\* The URL the handler builds for the client is 1; page u links to u + 1 or
\* carries no `next` (0).
Page(u) ==
    [status : {200, 500}, results : PageResults,
     next : IF u < MaxPages THEN {0, u + 1} ELSE {0}]

Servers == {srv \in [1..MaxPages -> UNION {Page(u) : u \in 1..MaxPages}] :
              \A u \in 1..MaxPages : srv[u] \in Page(u)}

\* Faulty variant: each page's results replace the ones collected before.
extend_overwrite(collected, results) == results

\* all_results.extend(data.get("results", []))
extend(collected, results) == collected \o results

\* One pass of `while next_url:` in _get_consumption_data.
get_page ==
    /\ page_pc = "loop"
    /\ next_url # 0
    /\ requested' = Append(requested, next_url)
    /\ LET resp == pages[next_url]
       IN  IF raise_for_status(resp.status)
           THEN /\ page_pc' = IF variant = "manual" THEN "returned_none"
                                                    ELSE "raised"
                /\ UNCHANGED <<all_results, next_url>>
           ELSE /\ all_results' = extend(all_results, resp.results)
                /\ next_url' = resp.next
                /\ page_pc' = IF resp.next = 0 THEN "returned" ELSE "loop"
    /\ UNCHANGED <<pages, variant, parsed, page_writes,
                   tokenVars, fetchVars, storeVars, unitVars, resolveVars,
                   saveVars, moreVars>>

\* consumption = r["consumption"] * 1000
parse_consumption_results(consumption_json) ==
    [i \in 1..Len(consumption_json) |-> consumption_json[i] * 1000]

\* `if not data: continue`, else _parse_consumption_results(data).
parse_or_skip ==
    /\ page_pc \in {"returned", "returned_none"}
    /\ IF page_pc = "returned_none" \/ all_results = <<>>
       THEN /\ page_pc' = "skipped"
            /\ parsed' = parsed
       ELSE /\ page_pc' = "parsed"
            /\ parsed' = parse_consumption_results(all_results)
    /\ UNCHANGED <<pages, variant, next_url, all_results, requested,
                   page_writes, tokenVars, fetchVars, storeVars, unitVars, resolveVars,
                   saveVars, moreVars>>

\* _create_rows and the insert: one row per parsed reading.
write_rows ==
    /\ page_pc = "parsed"
    /\ page_writes' = page_writes + 1
    /\ page_pc' = "written"
    /\ UNCHANGED <<pages, variant, next_url, all_results, requested, parsed,
                   tokenVars, fetchVars, storeVars, unitVars, resolveVars,
                   saveVars, moreVars>>

\* `except Exception` around the client's processing.
client_failed ==
    /\ page_pc = "raised"
    /\ page_pc' = "failed"
    /\ UNCHANGED <<pages, variant, next_url, all_results, requested, parsed,
                   page_writes, tokenVars, fetchVars, storeVars, unitVars, resolveVars,
                   saveVars, moreVars>>

InitPages ==
    /\ InitTokenIdle
    /\ InitFetchIdle
    /\ InitStoreIdle
    /\ InitUnitsIdle
    /\ InitResolveIdle
    /\ InitSaveIdle
    /\ InitMoreIdle
    /\ pages \in Servers
    /\ variant \in {"function", "manual"}
    /\ next_url = 1
    /\ all_results = <<>>
    /\ requested = <<>>
    /\ page_pc = "loop"
    /\ parsed = <<>>
    /\ page_writes = 0

NextPages == get_page \/ parse_or_skip \/ write_rows \/ client_failed

SpecPages == InitPages /\ [][NextPages]_vars

----------------------------------------------------------------------------
(* The loops over units of work: clients of octopusEnergy, devices of       *)
(* _get_data_smartflow, service locations of _get_index_for_sensors         *)

Integrations == {"octopus", "smartflow", "smappee"}

\* What can happen to a unit: its request is answered 200 and its data are
\* processed; the request is answered with another status; the request
\* raises (timeout, connection error); the store lookup of the unit fails.
UnitEvents(job) ==
    IF job = "octopus" THEN {"ok", "non200", "exception", "db_failed"}
    ELSE {"ok", "non200", "exception"}

\* Leaving unit u of the loop: the next unit, or the end of the loop.
NextUnit(u) ==
    /\ unit_idx' = u + 1
    /\ units_pc' = IF u = Len(unit_events) THEN "done" ELSE "loop"

UnitStep(job) ==
    /\ integration = job
    /\ units_pc = "loop"
    /\ unit_idx <= Len(unit_events)
    /\ UNCHANGED <<integration, unit_events, tokenVars, fetchVars, storeVars,
                   pageVars, resolveVars, saveVars, moreVars>>

\* octopusEnergy: the client's body is inside try / except Exception;
\* raise_for_status raises on a non-2xx answer, a failed location lookup
\* gives [] and `continue`.
octopus_client ==
    /\ UnitStep("octopus")
    /\ processed' = IF unit_events[unit_idx] = "ok"
                    THEN processed \cup {unit_idx} ELSE processed
    /\ NextUnit(unit_idx)

\* _get_data_smartflow: the device's request is inside try / except
\* Exception; a status other than 200 is skipped with `continue`.
smartflow_device ==
    /\ UnitStep("smartflow")
    /\ processed' = IF unit_events[unit_idx] = "ok"
                    THEN processed \cup {unit_idx} ELSE processed
    /\ NextUnit(unit_idx)

\* _get_index_for_sensors: a status other than 200 is skipped with
\* `continue`; session.get is not inside a try, so an exception leaves the
\* function and ends in the except of smappeeIngest.
smappee_location ==
    /\ UnitStep("smappee")
    /\ IF unit_events[unit_idx] = "exception"
       THEN /\ units_pc' = "aborted"
            /\ UNCHANGED <<unit_idx, processed>>
       ELSE /\ processed' = IF unit_events[unit_idx] = "ok"
                            THEN processed \cup {unit_idx} ELSE processed
            /\ NextUnit(unit_idx)

InitUnits ==
    /\ InitTokenIdle
    /\ InitFetchIdle
    /\ InitStoreIdle
    /\ InitPagesIdle
    /\ InitResolveIdle
    /\ InitSaveIdle
    /\ InitMoreIdle
    /\ integration \in Integrations
    /\ unit_events \in [1..MaxUnits -> UnitEvents(integration)]
    /\ unit_idx = 1
    /\ processed = {}
    /\ units_pc = "loop"

NextUnits == octopus_client \/ smartflow_device \/ smappee_location

SpecUnits == InitUnits /\ [][NextUnits]_vars

----------------------------------------------------------------------------
(* Smappee: _get_unique_sensor_names and _get_gateway_sensor_info            *)
(* (src/smappee/helpers/helpers.py)                                          *)

\* INTERVAL '1 day' of the lookback, in seconds.
LOOKBACK == 86400

\* current_timestamp of the resolution passes.
ResolveNow == 90000

\* Row times: just outside the lookback, on its edge, and recent.
RowTimes == {ResolveNow - LOOKBACK - 1, ResolveNow - LOOKBACK, ResolveNow - 1}

\* client_id / location_id of a service location; "" is the NULL the left
\* join gives a service location without location.
LocInfos == [client_id : {"c1"}, location_id : {"l1", "l2", ""}]

\* Channel names of a service location in consumptionIndex order.
NameSeqs == {<<"L1", "L2", "L3">>, <<"L1", "L1", "L2">>}

\* Rows of main the resolver can meet: sensors are compared as stored.
MainRows ==
    [time : RowTimes, client_id : {"c1"}, location_id : {"l1"},
     metric : {"electricity"}, value : {0}, gateway : {"A"},
     sensor : {1, 2}, note : {"L1", "L2"}]
    \cup
    [time : {ResolveNow - 1}, client_id : {"c1"}, location_id : {"l2"},
     metric : {"electricity"}, value : {0}, gateway : {"A"},
     sensor : {1}, note : {"L1"}]

ResolverStores ==
    {t \in SUBSET MainRows : Cardinality(t) <= MaxStoreRows /\ UniqueKeys(t)}

Range(f) == {f[x] : x \in DOMAIN f}

\* ordered_unique[name] = None for every name not seen before.
RECURSIVE unique_names(_, _)
unique_names(names, ordered_unique) ==
    IF names = <<>> THEN ordered_unique
    ELSE unique_names(Tail(names),
                      IF Head(names) \in Range(ordered_unique)
                      THEN ordered_unique
                      ELSE Append(ordered_unique, Head(names)))

\* for slid in sorted(sensor_index.keys()), from slid on.
RECURSIVE unique_from(_, _, _)
unique_from(index, slid, ordered_unique) ==
    IF slid > MaxLocs THEN ordered_unique
    ELSE unique_from(index, slid + 1,
                     IF slid \in DOMAIN index
                     THEN unique_names(index[slid], ordered_unique)
                     ELSE ordered_unique)

get_unique_sensor_names(index) == unique_from(index, 1, <<>>)

Letters ==
    <<"A", "B", "C", "D", "E", "F", "G", "H", "I", "J", "K", "L", "M",
      "N", "O", "P", "Q", "R", "S", "T", "U", "V", "W", "X", "Y", "Z">>

\* Faulty variant: plain base 26, without the `n -= 1` between the passes.
RECURSIVE new_gateway_id_plain(_)
new_gateway_id_plain(n) ==
    LET q   == n \div 26
        rem == n % 26
    IN  IF q = 0 THEN Letters[rem + 1]
        ELSE new_gateway_id_plain(q) \o Letters[rem + 1]

\* Base-26 label of the n-th gateway (0-based): A .. Z, AA, AB, ...
RECURSIVE new_gateway_id(_)
new_gateway_id(n) ==
    LET q   == n \div 26
        rem == n % 26
    IN  IF q = 0 THEN Letters[rem + 1]
        ELSE new_gateway_id(q - 1) \o Letters[rem + 1]

\* time >= current_timestamp - INTERVAL '1 day'
in_lookback(r, t) == r.time >= t - LOOKBACK

\* SELECT DISTINCT gateway, sensor, note FROM main WHERE ...: a set of rows.
select_distinct(tbl, client_id, location_id, names, t) ==
    {<<r.gateway, r.sensor, r.note>> :
        r \in {x \in tbl : /\ x.client_id = client_id
                            /\ x.location_id = location_id
                            /\ x.note \in Range(names)
                            /\ in_lookback(x, t)}}

\* The query has no ORDER BY: fetchall may give the rows in any order.
RowOrders(S) ==
    {f \in [1..Cardinality(S) -> S] :
        \A i, j \in 1..Cardinality(S) : f[i] = f[j] => i = j}

\* _query_db(..., fetch=True): the rows, or [] when the operation failed.
smappee_query_db(ok, rows) == IF ok THEN rows ELSE <<>>

\* Entries built from the records of the store.
reuse_entries(records) ==
    [i \in 1..Len(records) |->
        [sensor |-> records[i][2], gateway |-> records[i][1],
         sensor_name |-> records[i][3]]]

\* Faulty variant: the sensor ids start at 0.
bootstrap_entries_zero_based(gateway_label, sensor_set) ==
    [i \in 1..Len(sensor_set) |->
        [sensor |-> i - 1, gateway |-> gateway_label,
         sensor_name |-> sensor_set[i]]]

\* {"sensor": i + 1, ...} for i, sname in enumerate(sensor_set); the
\* sequence index here is i + 1.
bootstrap_entries(gateway_label, sensor_set) ==
    [i \in 1..Len(sensor_set) |->
        [sensor |-> (i - 1) + 1, gateway |-> gateway_label,
         sensor_name |-> sensor_set[i]]]

\* Faulty variant: the stored count of the key is never read back.
counter_get_forgetful(counter, key) == 0

\* new_gateway_counter.get(key, 0)
counter_get(counter, key) == IF key \in DOMAIN counter THEN counter[key] ELSE 0

\* No entry of the service location carries the name: gateway = sensor_id = "".
NoPair == [found |-> FALSE, gateway |-> "", sensor |-> 0]

\* Faulty variant: the first entry is taken without comparing its name.
lookup_pair_defaulting(entries, name) ==
    IF entries = <<>> THEN NoPair
    ELSE [found |-> TRUE, gateway |-> Head(entries).gateway,
          sensor |-> Head(entries).sensor]

\* for s in gateway_sensor_info.get(slid, []): the first entry whose
\* sensor_name is the name, then break.
RECURSIVE lookup_pair(_, _)
lookup_pair(entries, name) ==
    IF entries = <<>> THEN NoPair
    ELSE IF Head(entries).sensor_name = name
    THEN [found |-> TRUE, gateway |-> Head(entries).gateway,
          sensor |-> Head(entries).sensor]
    ELSE lookup_pair(Tail(entries), name)

\* if all([client_id, location_id, gateway, sensor_id]): rows.append(...)
row_appended(info, pair) ==
    /\ info.client_id # ""
    /\ info.location_id # ""
    /\ pair.found
    /\ pair.gateway # ""
    /\ pair.sensor # 0

\* Names of the rows _write_to_tsdb (and _generate_insert) builds from one
\* reading of the service location: sum_active_power_per_sensor gives one
\* value per name of its index.
rows_built(info, names, entries) ==
    {name \in Range(names) : row_appended(info, lookup_pair(entries, name))}

ResolveFrame == UNCHANGED <<service_locations, sensor_index, first_map,
                            first_failed, pass, tokenVars, fetchVars,
                            storeVars, pageVars, unitVars, saveVars, moreVars>>

\* One pass of `for slid, info in service_locations.items()`; an empty
\* sensor_set returns {} before the loop.
resolve_location ==
    /\ res_pc = "loop"
    /\ res_idx <= Len(service_locations)
    /\ LET slid == res_idx
           info == service_locations[slid]
           sensor_set == get_unique_sensor_names(sensor_index)
           key == <<info.client_id, info.location_id>>
       IN  IF sensor_set = <<>>
           THEN /\ res_pc' = "done"
                /\ UNCHANGED <<sensor_gateway_map, new_gateway_counter,
                               res_idx, query_failed>>
           ELSE /\ res_idx' = slid + 1
                /\ res_pc' = IF slid = Len(service_locations)
                             THEN "done" ELSE "loop"
                /\ IF \/ slid \notin DOMAIN sensor_index
                      \/ info.client_id = ""
                      \/ info.location_id = ""
                   THEN UNCHANGED <<sensor_gateway_map, new_gateway_counter,
                                    query_failed>>
                   ELSE \E ok \in BOOLEAN :
                        \E rows \in RowOrders(select_distinct(store,
                                      info.client_id, info.location_id,
                                      sensor_set, ResolveNow)) :
                          LET records == smappee_query_db(ok, rows)
                              next_idx == counter_get(new_gateway_counter, key)
                          IN  /\ query_failed' = IF ok THEN query_failed
                                                 ELSE query_failed \cup {slid}
                              /\ IF records # <<>>
                                 THEN /\ sensor_gateway_map' =
                                           (slid :> reuse_entries(records))
                                           @@ sensor_gateway_map
                                      /\ UNCHANGED new_gateway_counter
                                 ELSE /\ sensor_gateway_map' =
                                           (slid :> bootstrap_entries(
                                               new_gateway_id(next_idx),
                                               sensor_set))
                                           @@ sensor_gateway_map
                                      /\ new_gateway_counter' =
                                           (key :> next_idx + 1)
                                           @@ new_gateway_counter
    /\ ResolveFrame

\* The next timer run resolves again: same service locations, same sensor
\* index, and the same store, since smappeeIngest does not write.
resolve_again ==
    /\ res_pc = "done"
    /\ pass = 1
    /\ first_map' = sensor_gateway_map
    /\ first_failed' = query_failed
    /\ pass' = 2
    /\ sensor_gateway_map' = <<>>
    /\ new_gateway_counter' = <<>>
    /\ query_failed' = {}
    /\ res_idx' = 1
    /\ res_pc' = "loop"
    /\ UNCHANGED <<service_locations, sensor_index, tokenVars, fetchVars,
                   storeVars, pageVars, unitVars, saveVars, moreVars>>

InitResolve ==
    /\ InitTokenIdle
    /\ InitFetchIdle
    /\ InitPagesIdle
    /\ InitUnitsIdle
    /\ InitSaveIdle
    /\ InitMoreIdle
    /\ store \in ResolverStores
    /\ pre_store = store
    /\ batch = <<>>
    /\ write_ok = "none"
    /\ repeated = FALSE
    /\ db_called = FALSE
    /\ write_ret = "none"
    /\ service_locations \in [1..MaxLocs -> LocInfos]
    /\ sensor_index \in UNION {[D -> NameSeqs] : D \in SUBSET (1..MaxLocs)}
    /\ sensor_gateway_map = <<>>
    /\ new_gateway_counter = <<>>
    /\ res_idx = 1
    /\ res_pc = "loop"
    /\ query_failed = {}
    /\ first_map = <<>>
    /\ first_failed = {}
    /\ pass = 1

NextResolve == resolve_location \/ resolve_again

SpecResolve == InitResolve /\ [][NextResolve]_vars

----------------------------------------------------------------------------
(* Saving the credential: _write_token_to_tmp (SmartFlow, Smappee UAE) and   *)
(* write_token_to_file (Fronius), with the process dying at any point        *)

\* A file holding the first len of the MaxChunks pieces of credential cred.
FileOf(cred, len) == [exists |-> TRUE, cred |-> cred, len |-> len]

SaveFrame == UNCHANGED <<saver, save_cred, tokenVars, fetchVars, storeVars,
                         pageVars, unitVars, resolveVars, moreVars>>

\* tmp.write_text(...): the temporary file is created or truncated.
tmp_open ==
    /\ saver \in {"smartflow", "smappee_uae"}
    /\ save_pc = "start"
    /\ save_tmp' = FileOf(save_cred, 0)
    /\ save_pc' = "writing"
    /\ UNCHANGED save_file
    /\ SaveFrame

\* tmp.write_text(...): the next piece of the payload reaches the file.
tmp_write ==
    /\ saver \in {"smartflow", "smappee_uae"}
    /\ save_pc = "writing"
    /\ save_tmp' = FileOf(save_cred, save_tmp.len + 1)
    /\ save_pc' = IF save_tmp.len + 1 = MaxChunks THEN "written" ELSE "writing"
    /\ UNCHANGED save_file
    /\ SaveFrame

\* os.replace(tmp, path): one rename; the finally finds no tmp left.
os_replace ==
    /\ saver \in {"smartflow", "smappee_uae"}
    /\ save_pc = "written"
    /\ save_file' = save_tmp
    /\ save_tmp' = NoPath
    /\ save_pc' = "done"
    /\ SaveFrame

\* open(TOKEN_PY_PATH, "w"): the token file itself is created or truncated.
file_open ==
    /\ saver = "fronius"
    /\ save_pc = "start"
    /\ save_file' = FileOf(save_cred, 0)
    /\ save_pc' = "writing"
    /\ UNCHANGED save_tmp
    /\ SaveFrame

\* f.write(content) and the flush of close: the next piece reaches the file.
file_write ==
    /\ saver = "fronius"
    /\ save_pc = "writing"
    /\ save_file' = FileOf(save_cred, save_file.len + 1)
    /\ save_pc' = IF save_file.len + 1 = MaxChunks THEN "done" ELSE "writing"
    /\ UNCHANGED save_tmp
    /\ SaveFrame

\* The process dies (host recycled, function timeout) inside the save.
crash ==
    /\ save_pc \in {"start", "writing", "written"}
    /\ save_pc' = "crashed"
    /\ UNCHANGED <<save_file, save_tmp>>
    /\ SaveFrame

\* Tokens of the credentials an earlier save left in the file.
OldCreds == {1, 2}

InitSave ==
    /\ InitTokenIdle
    /\ InitFetchIdle
    /\ InitStoreIdle
    /\ InitPagesIdle
    /\ InitUnitsIdle
    /\ InitResolveIdle
    /\ InitMoreIdle
    /\ saver \in Vendors
    /\ save_cred = 3
    /\ save_file \in {NoPath} \cup {FileOf(c, MaxChunks) : c \in OldCreds}
    /\ save_tmp \in {NoPath} \cup {FileOf(c, 1) : c \in OldCreds}
    /\ save_pc = "start"

NextSave ==
    tmp_open \/ tmp_write \/ os_replace \/ file_open \/ file_write \/ crash

SpecSave == InitSave /\ [][NextSave]_vars

----------------------------------------------------------------------------
(* Normalizers: generate_tsdb_inserts (Fronius) and                        *)
(* _parse_consumption_results (Octopus)                                     *)

MaxChannels == 3
MaxRecords == 3

\* METRICS_MAP of froniusIngest: channel name -> sensor id, as text.
METRICS_MAP ==
    ("EnergyProductionTotal" :> "8") @@ ("EnergySelfConsumption" :> "2") @@
    ("EnergyPurchased" :> "5") @@ ("EnergyFeedIn" :> "6") @@
    ("EnergyBattCharge" :> "7") @@ ("EnergyBattDischarge" :> "4") @@
    ("EnergyConsumptionTotal" :> "3") @@ ("EnergyBattChargeGrid" :> "1")

\* int(sensor_id) on the decimal texts of METRICS_MAP.
int_of ==
    ("1" :> 1) @@ ("2" :> 2) @@ ("3" :> 3) @@ ("4" :> 4) @@ ("5" :> 5) @@
    ("6" :> 6) @@ ("7" :> 7) @@ ("8" :> 8)

\* JSON values of a field: a number (Fronius: in tenths, Octopus: in
\* thousandths of a kWh), a text that is no number, null, or no such key.
Num(v) == [kind |-> "num", v |-> v]
Text == [kind |-> "text", v |-> 0]
Null == [kind |-> "null", v |-> 0]
Absent == [kind |-> "absent", v |-> 0]

\* Channels of an aggrdata entry; "" stands for a channel without a name.
ChannelNames == {"EnergyProductionTotal", "EnergyPurchased", "EnergyOther", ""}
ChannelValues == {Num(125), Text, Null}
Channels == [channelName : ChannelNames, value : ChannelValues]

\* The aggrdata payload: nothing, an empty `data` list, or one entry.
SolarPayloads ==
    {[kind |-> "none", channels |-> <<>>],
     [kind |-> "no_entry", channels |-> <<>>]} \cup
    {[kind |-> "entry", channels |-> chs] :
        chs \in UNION {[1..n -> Channels] : n \in 0..MaxChannels}}

\* `x or 0`: null and 0 are falsy.
or_zero(val) ==
    IF val.kind \in {"null", "absent"} \/ (val.kind = "num" /\ val.v = 0)
    THEN Num(0) ELSE val

\* Faulty variant: a channel without a mapping ends the loop.
channel_step_unmapped_raises(ch, metrics_map, common) ==
    LET value == or_zero(ch.value)
    IN  IF ch.channelName = "" THEN [act |-> "continue", row |-> <<>>]
        ELSE IF ch.channelName \notin DOMAIN metrics_map
        THEN [act |-> "raise", row |-> <<>>]
        ELSE IF value.kind # "num" THEN [act |-> "raise", row |-> <<>>]
        ELSE [act |-> "append",
              row |-> [time |-> common.time, client_id |-> common.client_id,
                       location_id |-> common.location_id,
                       metric |-> common.metric, value |-> value.v,
                       gateway |-> common.gateway,
                       sensor |-> int_of[metrics_map[ch.channelName]],
                       note |-> ch.channelName]]

\* The body of `for ch in channels`: continue without a name or a mapping;
\* float(value) raises on a text that is no number; otherwise one row.
channel_step(ch, metrics_map, common) ==
    LET value == or_zero(ch.value)
    IN  IF ch.channelName = "" THEN [act |-> "continue", row |-> <<>>]
        ELSE IF ch.channelName \notin DOMAIN metrics_map
        THEN [act |-> "continue", row |-> <<>>]
        ELSE IF value.kind # "num" THEN [act |-> "raise", row |-> <<>>]
        ELSE [act |-> "append",
              row |-> [time |-> common.time, client_id |-> common.client_id,
                       location_id |-> common.location_id,
                       metric |-> common.metric, value |-> value.v,
                       gateway |-> common.gateway,
                       sensor |-> int_of[metrics_map[ch.channelName]],
                       note |-> ch.channelName]]

\* The loop inside the function's single try: an exception leaves the loop,
\* `except Exception` logs it, and the rows appended so far are returned.
RECURSIVE channel_loop(_, _, _, _)
channel_loop(channels, rows, metrics_map, common) ==
    IF channels = <<>> THEN rows
    ELSE LET step == channel_step(Head(channels), metrics_map, common)
         IN  CASE step.act = "continue" ->
                    channel_loop(Tail(channels), rows, metrics_map, common)
               [] step.act = "append" ->
                    channel_loop(Tail(channels), Append(rows, step.row),
                                 metrics_map, common)
               [] step.act = "raise" -> rows

\* generate_tsdb_inserts with metrics_map = METRICS_MAP; ts is the reading
\* of datetime.now(timezone.utc).
generate_tsdb_inserts(data, client_id, location_id, gateway, metric, ts) ==
    IF data.kind # "entry" THEN <<>>
    ELSE channel_loop(data.channels, <<>>, METRICS_MAP,
                      [time |-> ts, client_id |-> client_id,
                       location_id |-> location_id, metric |-> metric,
                       gateway |-> gateway])

\* interval_end texts: wall-clock seconds and the offset suffix.
Iso(wall, suffix) == [kind |-> "iso", wall |-> wall, suffix |-> suffix]
NoIso(kind) == [kind |-> kind, wall |-> 0, suffix |-> ""]

\* Seconds east of UTC of an offset suffix.
utc_offset == ("+00:00" :> 0) @@ ("+01:00" :> 3600)

ConsumptionValues == {Num(2), Text, Absent}
IntervalEnds ==
    {Iso(1800, "Z"), Iso(5400, "+01:00"), NoIso("text"), NoIso("absent")}
Readings == [consumption : ConsumptionValues, interval_end : IntervalEnds]
ConsumptionPayloads == UNION {[1..n -> Readings] : n \in 0..MaxRecords}

\* r["consumption"] * 1000: KeyError without the key, TypeError on null; a
\* text is repeated 1000 times and stays a text.
times_1000(val) ==
    CASE val.kind = "num" -> [raised |-> FALSE, value |-> Num(val.v * 1000)]
      [] val.kind = "text" -> [raised |-> FALSE, value |-> Text]
      [] OTHER -> [raised |-> TRUE, value |-> Null]

\* "Z" is replaced by "+00:00"; dt.fromisoformat(ts).astimezone(timezone.utc)
\* shifts the wall clock to UTC; strftime("%Y-%m-%dT%H:%M:%S") prints it
\* without an offset. A missing key or a text that is no ISO time raises.
to_utc_text(ts) ==
    IF ts.kind # "iso" THEN [raised |-> TRUE, time |-> NoIso("text")]
    ELSE LET suffix == IF ts.suffix = "Z" THEN "+00:00" ELSE ts.suffix
         IN  [raised |-> FALSE,
              time |-> Iso(ts.wall - utc_offset[suffix], "")]

\* The loop of _parse_consumption_results (parse_consumption_results of the
\* manual script is the same): no exception is caught inside it.
RECURSIVE parse_consumption_loop(_, _)
parse_consumption_loop(consumption_json, out) ==
    IF consumption_json = <<>> THEN [raised |-> FALSE, out |-> out]
    ELSE LET r == Head(consumption_json)
             consumption == times_1000(r.consumption)
             ts == to_utc_text(r.interval_end)
         IN  IF consumption.raised \/ ts.raised
             THEN [raised |-> TRUE, out |-> <<>>]
             ELSE parse_consumption_loop(
                      Tail(consumption_json),
                      Append(out, [time |-> ts.time,
                                   value |-> consumption.value]))

NormFrame ==
    UNCHANGED <<tokenVars, fetchVars, storeVars, pageVars, unitVars,
                resolveVars, saveVars, jobVars, writerVars, cacheVars, lateVars>>

\* froniusIngest: rows = generate_tsdb_inserts(data, ...), on the payload
\* and at the clock reading drawn at the start.
call_generate_tsdb_inserts ==
    /\ norm_fn = "none"
    /\ norm_ts > 0
    /\ norm_fn' = "generate_tsdb_inserts"
    /\ norm_out' = generate_tsdb_inserts(norm_in, CLIENT_ID, LOCATION_ID,
                                         "A", "solar", norm_ts)
    /\ norm_raised' = FALSE
    /\ UNCHANGED <<norm_in, norm_ts>>
    /\ NormFrame

\* octopusEnergy: parsed = _parse_consumption_results(data), which reads no
\* clock (reading 0).
call_parse_consumption_results ==
    /\ norm_fn = "none"
    /\ norm_ts = 0
    /\ norm_in # <<>>
    /\ LET res == parse_consumption_loop(norm_in, <<>>)
       IN  /\ norm_out' = res.out
           /\ norm_raised' = res.raised
    /\ norm_fn' = "_parse_consumption_results"
    /\ UNCHANGED <<norm_in, norm_ts>>
    /\ NormFrame

\* The payload handed to one of the two normalizers.
InitNormalize ==
    /\ InitTokenIdle
    /\ InitFetchIdle
    /\ InitStoreIdle
    /\ InitPagesIdle
    /\ InitUnitsIdle
    /\ InitResolveIdle
    /\ InitSaveIdle
    /\ InitJobIdle
    /\ InitWritersIdle
    /\ InitCacheIdle
    /\ InitLateIdle
    /\ norm_fn = "none"
    /\ norm_out = <<>>
    /\ norm_raised = FALSE
    /\ \/ norm_in \in SolarPayloads /\ norm_ts \in 1..2
       \/ norm_in \in ConsumptionPayloads /\ norm_ts = 0

NextNormalize == call_generate_tsdb_inserts \/ call_parse_consumption_results

SpecNormalize == InitNormalize /\ [][NextNormalize]_vars

----------------------------------------------------------------------------
(* Scheduled invocations of one job and the window each of them fetches.   *)
(* Time is counted in half hours, the schedule step of SmartFlow and       *)
(* Fronius ("0 0/30 * * * *"); Octopus runs every hour ("0 0 * * * *").     *)

MaxRuns == 4

\* timedelta(days=3), in half hours.
OCTOPUS_WINDOW == 144

Jobs == {"octopus", "smartflow", "fronius"}

\* Half hours between two invocations of the job's timer.
schedule(j) == IF j = "octopus" THEN 2 ELSE 1

\* now.replace(minute=0, second=0, microsecond=0)
floor_hour(t) == t - (t % 2)

\* Times of the rows an invocation at `t` builds from a successful fetch:
\* Octopus one per half-hourly reading between period_from = now - 3 days
\* and period_to = now; SmartFlow one per device at time_to, the hour `t`
\* lies in (the usage asked for is the hour before it); Fronius one per
\* channel at ts = datetime.now().
rows_at(j, t) ==
    CASE j = "octopus" -> (t - OCTOPUS_WINDOW)..t
      [] j = "smartflow" -> {floor_hour(t)}
      [] j = "fronius" -> {t}

JobFrame ==
    UNCHANGED <<timer_job, tokenVars, fetchVars, storeVars, pageVars,
                unitVars, resolveVars, saveVars, normVars, writerVars,
                cacheVars, lateVars>>

\* An invocation whose fetch and insert succeed: ON CONFLICT DO NOTHING
\* keeps the rows already stored and adds the others.
run_ok ==
    /\ runs < MaxRuns
    /\ main' = main \cup rows_at(timer_job, clock)
    /\ job_pc' = IF job_pc = "failed" THEN "recovered" ELSE job_pc
    /\ clock' = clock + schedule(timer_job)
    /\ runs' = runs + 1
    /\ UNCHANGED owed
    /\ JobFrame

\* An invocation whose fetch fails: no rows, nothing written.
run_fetch_failed ==
    /\ runs < MaxRuns
    /\ clock' = clock + schedule(timer_job)
    /\ runs' = runs + 1
    /\ UNCHANGED <<main, owed, job_pc>>
    /\ JobFrame

\* An invocation whose insert fails: the transaction is rolled back; the
\* handler logs and ends, nothing is kept for the next invocation.
run_write_failed ==
    /\ runs < MaxRuns
    /\ owed' = rows_at(timer_job, clock)
    /\ job_pc' = "failed"
    /\ clock' = clock + schedule(timer_job)
    /\ runs' = runs + 1
    /\ UNCHANGED main
    /\ JobFrame

\* The table holds what the job's earlier invocations wrote, or nothing.
InitRecover ==
    /\ InitTokenIdle
    /\ InitFetchIdle
    /\ InitStoreIdle
    /\ InitPagesIdle
    /\ InitUnitsIdle
    /\ InitResolveIdle
    /\ InitSaveIdle
    /\ InitNormIdle
    /\ InitWritersIdle
    /\ InitCacheIdle
    /\ InitLateIdle
    /\ timer_job \in Jobs
    /\ clock \in {t \in OCTOPUS_WINDOW..(OCTOPUS_WINDOW + 1) :
                    t % schedule(timer_job) = 0}
    /\ runs = 0
    /\ main \in {{}, UNION {rows_at(timer_job, t) : t \in 0..(clock - 1)}}
    /\ owed = {}
    /\ job_pc = "none"

NextRecover == run_ok \/ run_fetch_failed \/ run_write_failed

SpecRecover == InitRecover /\ [][NextRecover]_vars

----------------------------------------------------------------------------
(* Two overlapping invocations of one job writing to the same table: each   *)
(* _query_db(..., many=True) is one transaction (READ COMMITTED) that sends *)
(* its rows one by one and commits after the last.                          *)

Writers == {1, 2}

\* The transaction that holds a row of the table; 0: committed.
Committed == 0

\* Rows a writer hands over: its own value on every row.
WriterRows(w) == {Row(k, 10 * w, "L1") : k \in 1..MaxKeys}
WriterBatches(w) == UNION {[1..n -> WriterRows(w)] : n \in 1..MaxBatch}

\* Faulty variant: a row held by the other, unfinished transaction counts
\* as a conflict at once.
on_conflict_no_wait(tbl, r, w) ==
    IF \E e \in tbl : NaturalKey(e.row) = NaturalKey(r)
    THEN "skip" ELSE "insert"

\* INSERT ... ON CONFLICT (natural key) DO NOTHING against the unique
\* index: a row of this key that is committed, or inserted by the same
\* transaction, is a conflict; one inserted by a transaction still in
\* progress makes the insert wait for that transaction to end.
on_conflict(tbl, r, w) ==
    IF \E e \in tbl : /\ NaturalKey(e.row) = NaturalKey(r)
                      /\ e.by \in {Committed, w}
    THEN "skip"
    ELSE IF \E e \in tbl : NaturalKey(e.row) = NaturalKey(r)
    THEN "wait" ELSE "insert"

WritersFrame ==
    UNCHANGED <<wr_batch, wr_init, tokenVars, fetchVars, storeVars, pageVars,
                unitVars, resolveVars, saveVars, normVars, jobVars,
                cacheVars, lateVars>>

\* cursor.executemany: the next parameter row is sent.
insert_row(w) ==
    /\ wr_state[w] = "running"
    /\ wr_pos[w] <= Len(wr_batch[w])
    /\ LET r == wr_batch[w][wr_pos[w]]
           what == on_conflict(wr_table, r, w)
       IN  /\ wr_table' = IF what = "insert"
                          THEN wr_table \cup {[row |-> r, by |-> w]}
                          ELSE wr_table
           /\ wr_pos' = IF what = "wait" THEN wr_pos
                        ELSE [wr_pos EXCEPT ![w] = @ + 1]
           /\ wr_state' = IF what = "wait"
                          THEN [wr_state EXCEPT ![w] = "waiting"]
                          ELSE wr_state
           /\ wr_waited' = (wr_waited \/ what = "wait")
    /\ WritersFrame

\* The transaction waited for has ended: the insert is tried again.
resume(w) ==
    /\ wr_state[w] = "waiting"
    /\ on_conflict(wr_table, wr_batch[w][wr_pos[w]], w) # "wait"
    /\ wr_state' = [wr_state EXCEPT ![w] = "running"]
    /\ UNCHANGED <<wr_pos, wr_table, wr_waited>>
    /\ WritersFrame

\* connection.commit() after the last row.
commit(w) ==
    /\ wr_state[w] = "running"
    /\ wr_pos[w] > Len(wr_batch[w])
    /\ wr_table' = {[row |-> e.row,
                     by |-> IF e.by = w THEN Committed ELSE e.by] :
                       e \in wr_table}
    /\ wr_state' = [wr_state EXCEPT ![w] = "committed"]
    /\ UNCHANGED <<wr_pos, wr_waited>>
    /\ WritersFrame

\* An exception inside the `with` block (connection lost, row rejected):
\* the connection is closed without a commit and _query_db returns False.
write_fails(w) ==
    /\ wr_state[w] \in {"running", "waiting"}
    /\ wr_table' = {e \in wr_table : e.by # w}
    /\ wr_state' = [wr_state EXCEPT ![w] = "failed"]
    /\ UNCHANGED <<wr_pos, wr_waited>>
    /\ WritersFrame

\* Both transactions wait for each other: the server ends one of them with
\* a deadlock error, which reaches _query_db as an exception.
deadlock_detected(w) ==
    /\ \A v \in Writers : wr_state[v] = "waiting"
    /\ wr_table' = {e \in wr_table : e.by # w}
    /\ wr_state' = [wr_state EXCEPT ![w] = "failed"]
    /\ UNCHANGED <<wr_pos, wr_waited>>
    /\ WritersFrame

InitOverlap ==
    /\ InitTokenIdle
    /\ InitFetchIdle
    /\ InitStoreIdle
    /\ InitPagesIdle
    /\ InitUnitsIdle
    /\ InitResolveIdle
    /\ InitSaveIdle
    /\ InitNormIdle
    /\ InitJobIdle
    /\ InitCacheIdle
    /\ InitLateIdle
    /\ wr_batch \in [Writers -> UNION {WriterBatches(w) : w \in Writers}]
    /\ \A w \in Writers : wr_batch[w] \in WriterBatches(w)
    /\ wr_pos = [w \in Writers |-> 1]
    /\ wr_state = [w \in Writers |-> "running"]
    /\ wr_init \in SUBSET {Row(k, 10, "L2") : k \in 1..MaxKeys}
    /\ wr_table = {[row |-> r, by |-> Committed] : r \in wr_init}
    /\ wr_waited = FALSE

NextOverlap ==
    \E w \in Writers :
        \/ insert_row(w)
        \/ resume(w)
        \/ commit(w)
        \/ write_fails(w)
        \/ deadlock_detected(w)

SpecOverlap == InitOverlap /\ [][NextOverlap]_vars

----------------------------------------------------------------------------
(* Two overlapping invocations on one host sharing the token file: each     *)
(* loads it, may save a new credential through the fixed .tmp path, and     *)
(* (SmartFlow) clears it at the end of the run.                             *)

Invocations == {1, 2}

\* The invocation the timer starts after those two have ended.
NextInvocation == 3

\* Chunks in which the text of a credential reaches the file.
CacheChunks == 2

\* Inodes: one each invocation may create, the token file and the .tmp file
\* found at the start.
OldTokenInode == 3
OldTmpInode == 4
Inodes == 1..4

\* The text of credential c, complete.
CredText(c) == [i \in 1..CacheChunks |-> c]

NotLoaded == [kind |-> "none", text |-> <<>>]
SlotAbsent == [kind |-> "absent", text |-> <<>>]
Loaded(text) == [kind |-> "file", text |-> text]

\* Writing chunk `c` at offset `off` of a file: bytes skipped past the end
\* of a file truncated meanwhile read as zeros.
write_at(text, off, c) ==
    [i \in 1..Max(Len(text), off + 1) |->
        IF i = off + 1 THEN c
        ELSE IF i <= Len(text) THEN text[i] ELSE 0]

\* Order of the steps of _write_token_to_tmp: tmp.write_text(...), then
\* os.replace(tmp, token_path), then the `finally` block.
after_step(step, off) ==
    CASE step = "open" -> "write"
      [] step = "write" -> IF off = CacheChunks THEN "replace" ELSE "write"
      [] step = "replace" -> "cleanup"

\* What follows get_active_token in the handler: smartflowIngest ends with
\* clear_token_store, smappeeIngest does not clear.
after_token(v) == IF v = "smartflow" THEN "clear" ELSE "done"

CacheFrame ==
    UNCHANGED <<cache_vendor, tokenVars, fetchVars, storeVars, pageVars,
                unitVars, resolveVars, saveVars, normVars, jobVars,
                writerVars, lateVars>>

\* _load_token_from_tmp: exists(), then read_text() of the file the path
\* names now. A credential found may still be valid (no exchange, no save)
\* or not (exchange, then save).
cache_load(p) ==
    /\ cache_proc[p].pc = "load"
    /\ p \in Invocations
    /\ LET seen == IF cache_tok = 0 THEN SlotAbsent
                   ELSE Loaded(cache_inodes[cache_tok])
       IN  \E nxt \in {"open"} \cup
                      (IF seen.kind = "file" /\ seen.text # <<>>
                       THEN {after_token(cache_vendor)} ELSE {}) :
               cache_proc' = [cache_proc EXCEPT ![p].seen = seen,
                                                ![p].pc = nxt]
    /\ UNCHANGED <<cache_tmp, cache_tok, cache_inodes>>
    /\ CacheFrame

\* _load_token_from_tmp of the following invocation, which is not followed
\* further.
next_load ==
    /\ \A p \in Invocations : cache_proc[p].pc \in {"done", "raised"}
    /\ cache_proc[NextInvocation].pc = "load"
    /\ cache_proc' =
           [cache_proc EXCEPT
              ![NextInvocation].seen =
                  IF cache_tok = 0 THEN SlotAbsent
                  ELSE Loaded(cache_inodes[cache_tok]),
              ![NextInvocation].pc = "done"]
    /\ UNCHANGED <<cache_tmp, cache_tok, cache_inodes>>
    /\ CacheFrame

\* tmp.write_text: open(tmp, "w") creates the file or truncates the one the
\* path names.
cache_open(p) ==
    /\ cache_proc[p].pc = "open"
    /\ LET ino == IF cache_tmp = 0 THEN p ELSE cache_tmp
       IN  /\ cache_tmp' = ino
           /\ cache_inodes' = [cache_inodes EXCEPT ![ino] = <<>>]
           /\ cache_proc' = [cache_proc EXCEPT ![p].fd = ino, ![p].off = 0,
                                               ![p].pc = after_step("open", 0)]
    /\ UNCHANGED cache_tok
    /\ CacheFrame

\* tmp.write_text: the next chunk goes to the open file at its offset.
cache_write(p) ==
    /\ cache_proc[p].pc = "write"
    /\ LET me == cache_proc[p]
       IN  /\ cache_inodes' =
                  [cache_inodes EXCEPT ![me.fd] = write_at(@, me.off, p)]
           /\ cache_proc' =
                  [cache_proc EXCEPT ![p].off = me.off + 1,
                                     ![p].pc = after_step("write", me.off + 1)]
    /\ UNCHANGED <<cache_tmp, cache_tok>>
    /\ CacheFrame

\* os.replace(tmp, token_path): FileNotFoundError when no file is at the
\* .tmp path any more.
cache_replace(p) ==
    /\ cache_proc[p].pc = "replace"
    /\ IF cache_tmp = 0
       THEN /\ cache_proc' = [cache_proc EXCEPT ![p].pc = "cleanup",
                                                ![p].raised = TRUE]
            /\ UNCHANGED <<cache_tmp, cache_tok>>
       ELSE /\ cache_tok' = cache_tmp
            /\ cache_tmp' = 0
            /\ cache_proc' =
                   [cache_proc EXCEPT
                      ![p].pc = after_step("replace", cache_proc[p].off)]
    /\ UNCHANGED cache_inodes
    /\ CacheFrame

\* finally: if tmp.exists(): tmp.unlink(). An exception of os.replace then
\* leaves get_active_token and ends the run in the handler's except.
cache_cleanup(p) ==
    /\ cache_proc[p].pc = "cleanup"
    /\ cache_tmp' = 0
    /\ cache_proc' =
           [cache_proc EXCEPT
              ![p].pc = IF cache_proc[p].raised THEN "raised"
                        ELSE after_token(cache_vendor)]
    /\ UNCHANGED <<cache_tok, cache_inodes>>
    /\ CacheFrame

\* clear_token_store: the token file is unlinked if it exists.
cache_clear(p) ==
    /\ cache_proc[p].pc = "clear"
    /\ cache_tok' = 0
    /\ cache_proc' = [cache_proc EXCEPT ![p].pc = "done"]
    /\ UNCHANGED <<cache_tmp, cache_inodes>>
    /\ CacheFrame

InitCache ==
    /\ InitTokenIdle
    /\ InitFetchIdle
    /\ InitStoreIdle
    /\ InitPagesIdle
    /\ InitUnitsIdle
    /\ InitResolveIdle
    /\ InitSaveIdle
    /\ InitNormIdle
    /\ InitJobIdle
    /\ InitWritersIdle
    /\ InitLateIdle
    /\ cache_vendor \in {"smartflow", "smappee_uae"}
    /\ cache_tok \in {0, OldTokenInode}
    /\ cache_tmp \in {0, OldTmpInode}
    /\ cache_inodes =
           [i \in Inodes |->
               IF i = OldTokenInode /\ cache_tok = i THEN CredText(3)
               ELSE IF i = OldTmpInode /\ cache_tmp = i THEN <<3>>
               ELSE <<>>]
    /\ cache_proc = [p \in Invocations \cup {NextInvocation} |->
                        [pc |-> "load", fd |-> 0, off |-> 0,
                         seen |-> NotLoaded, raised |-> FALSE]]

NextCache ==
    \/ \E p \in Invocations :
           \/ cache_load(p)
           \/ cache_open(p)
           \/ cache_write(p)
           \/ cache_replace(p)
           \/ cache_cleanup(p)
           \/ cache_clear(p)
    \/ next_load

SpecCache == InitCache /\ [][NextCache]_vars

----------------------------------------------------------------------------
(* A warm process whose token file is removed between invocations *)

\* clear_token_store of src/smappee_uae/helpers/token_refresh.py: unlinks the
\* token file and leaves the module-level token_info as it is. The file
\* lives in the temporary directory, which the platform clears as well.
uae_clear_token_store ==
    /\ vendor = "smappee_uae"
    /\ Ready
    /\ slot # NoFile
    /\ slot' = NoFile
    /\ UNCHANGED <<vendor, now, ticks, issued, token_info, pc, grants, entry,
                   slot0, ret, data_requests, store_writes, run_end,
                   fetchVars, storeVars, otherVars>>

NextProcess == Next \/ uae_clear_token_store

SpecProcess == Init /\ [][NextProcess]_vars

----------------------------------------------------------------------------
(* new_gateway_id on every index up to the first three-letter labels *)

\* Largest index handed to new_gateway_id: 702 is the first three-letter one.
MaxIndex == 703

LabelFrame ==
    UNCHANGED <<tokenVars, fetchVars, storeVars, pageVars, unitVars,
                resolveVars, saveVars, normVars, jobVars, writerVars,
                cacheVars, hourVars>>

call_new_gateway_id ==
    /\ label_out = <<>>
    /\ label_n >= 0
    /\ label_out' = <<new_gateway_id(label_n)>>
    /\ UNCHANGED label_n
    /\ LabelFrame

InitLabels ==
    /\ InitTokenIdle
    /\ InitFetchIdle
    /\ InitStoreIdle
    /\ InitPagesIdle
    /\ InitUnitsIdle
    /\ InitResolveIdle
    /\ InitSaveIdle
    /\ InitNormIdle
    /\ InitJobIdle
    /\ InitWritersIdle
    /\ InitCacheIdle
    /\ InitHourIdle
    /\ label_n \in 0..MaxIndex
    /\ label_out = <<>>

NextLabels == call_new_gateway_id

SpecLabels == InitLabels /\ [][NextLabels]_vars

----------------------------------------------------------------------------
(* SmartFlow: the rows of successive invocations (_get_data_smartflow,     *)
(* _process_data, _create_rows, _write_to_tsdb). Time in half hours.       *)

\* Invocations followed.
MaxHourRuns == 4

\* Keys of did_name, the devices _get_devices returned.
DeviceIds == 1..MaxDevices

device_name(d) == IF d = 1 THEN "Tullamore Court 1" ELSE "Tullamore Court 2"

\* What the usage endpoint gives for one device: a 200 whose usage_data
\* holds a reading, holds none, or holds a null or zero Usage (<<0>>: both
\* become 0 through `or 0`); another status; or an exception of the
\* request (status 0).
UsageAnswers ==
    {[status |-> 200, usage |-> <<5>>], [status |-> 200, usage |-> <<7>>],
     [status |-> 200, usage |-> <<>>], [status |-> 200, usage |-> <<0>>],
     [status |-> 500, usage |-> <<>>], [status |-> 0, usage |-> <<>>]}

\* now.strftime("%Y-%m-%dT%H:%M:%S") of an instant floored to the hour:
\* the text names the hour, one text per hour.
time_text(t) == <<"hour", t \div 2>>

\* float((usage[0].get("Usage") if usage else 0) or 0); the row appended to
\* the result lists, in the column order of _create_rows.
process_data(payload, device_id, name, time_to) ==
    [time |-> time_to, client_id |-> "CTvx846sF9Y",
     location_id |-> "Lpj1hzfJimw", metric |-> "water",
     value |-> IF payload.usage # <<>> THEN payload.usage[1] ELSE 0,
     gateway |-> device_id, sensor |-> "1", note |-> name]

\* for device_id, device_name in devices.items(), from device d on: a
\* status other than 200 and an exception both leave the device out.
RECURSIVE usage_loop(_, _, _, _)
usage_loop(d, devices, answers, time_to) ==
    IF d > MaxDevices THEN <<>>
    ELSE (IF d \in devices /\ answers[d].status = 200
          THEN <<process_data(answers[d], d, device_name(d), time_to)>>
          ELSE <<>>)
         \o usage_loop(d + 1, devices, answers, time_to)

\* _get_data_smartflow called at `t`, followed by _create_rows.
get_data_smartflow(devices, answers, t) ==
    usage_loop(1, devices, answers, time_text(floor_hour(t)))

\* History: the value of the first committed row of each natural key.
RECURSIVE first_written(_, _)
first_written(first, rows) ==
    IF rows = <<>> THEN first
    ELSE first_written(IF NaturalKey(Head(rows)) \in DOMAIN first THEN first
                       ELSE (NaturalKey(Head(rows)) :> Head(rows).value)
                            @@ first,
                       Tail(rows))

HourFrame ==
    UNCHANGED <<tokenVars, fetchVars, storeVars, pageVars, unitVars,
                resolveVars, saveVars, normVars, jobVars, writerVars,
                cacheVars, labelVars>>

\* One invocation that reaches _write_to_tsdb: no rows, no statement;
\* otherwise executemany in one transaction, committed or not at all.
sf_run ==
    /\ hour_runs < MaxHourRuns
    /\ \E devices \in SUBSET DeviceIds :
       \E answers \in [devices -> UsageAnswers] :
       \E committed \in BOOLEAN :
         LET rows == get_data_smartflow(devices, answers, hour_clock)
             wrote == IF rows = <<>> THEN "nothing"
                      ELSE IF committed THEN "ok" ELSE "failed"
         IN  /\ hour_last' = [at |-> hour_clock, rows |-> rows,
                              wrote |-> wrote]
             /\ hour_store' = IF wrote = "ok"
                              THEN executemany(hour_store, rows)
                              ELSE hour_store
             /\ hour_first' = IF wrote = "ok"
                              THEN first_written(hour_first, rows)
                              ELSE hour_first
    /\ hour_clock' = hour_clock + schedule("smartflow")
    /\ hour_runs' = hour_runs + 1
    /\ HourFrame

\* One invocation that raises before the usage requests (token exchange or
\* _get_devices): the except of smartflowIngest logs, nothing is written.
sf_run_aborted ==
    /\ hour_runs < MaxHourRuns
    /\ hour_last' = [at |-> hour_clock, rows |-> <<>>, wrote |-> "aborted"]
    /\ hour_clock' = hour_clock + schedule("smartflow")
    /\ hour_runs' = hour_runs + 1
    /\ UNCHANGED <<hour_store, hour_first>>
    /\ HourFrame

InitHourly ==
    /\ InitTokenIdle
    /\ InitFetchIdle
    /\ InitStoreIdle
    /\ InitPagesIdle
    /\ InitUnitsIdle
    /\ InitResolveIdle
    /\ InitSaveIdle
    /\ InitNormIdle
    /\ InitJobIdle
    /\ InitWritersIdle
    /\ InitCacheIdle
    /\ InitLabelIdle
    /\ hour_clock \in {0, 1}
    /\ hour_runs = 0
    /\ hour_store = {}
    /\ hour_first = <<>>
    /\ hour_last = NoRun

NextHourly == sf_run \/ sf_run_aborted

SpecHourly == InitHourly /\ [][NextHourly]_vars

----------------------------------------------------------------------------
(* Properties *)

Non2xx(status) == ~ (status >= 200 /\ status < 300)

PostCall == pc \in {"authed", "auth_failed"}

SameKey(r1, r2) == NaturalKey(r1) = NaturalKey(r2)

\* C1: writing the same row sequence twice leaves the table as the first
\* write left it, and no natural key is ever stored twice.
C1_IdempotentWrite ==
    /\ UniqueKeys(store)
    /\ repeated => store = pre_store

C1_Witness ==
    /\ repeated
    /\ write_ok = "ok"
    /\ Len(batch) = 2
    /\ batch[1] # batch[2]
    /\ SameKey(batch[1], batch[2])
    /\ batch[1] \in store

\* C2: after a committed write every row stored before is still stored
\* unchanged, every batch row whose key was neither stored nor earlier in
\* the batch is stored, and nothing else is.
C2_ExistingRowWins ==
    write_ok = "ok" =>
        /\ pre_store \subseteq store
        /\ UniqueKeys(store)
        /\ \A i \in 1..Len(batch) :
             (/\ ~ \E s \in pre_store : SameKey(s, batch[i])
              /\ ~ \E j \in 1..(i - 1) : SameKey(batch[j], batch[i]))
             => batch[i] \in store
        /\ store \subseteq pre_store \cup {batch[i] : i \in 1..Len(batch)}

C2_Witness ==
    /\ write_ok = "ok"
    /\ \E i \in 1..Len(batch) :
         \E s \in pre_store : SameKey(s, batch[i]) /\ s # batch[i] /\ s \in store
    /\ \E j \in 1..Len(batch) : batch[j] \in store \ pre_store

\* C3: a call that finds a credential whose access expiry is in the future
\* makes no token request and returns that credential's access token.
C3_TokenReuse ==
    (PostCall /\ Valid(vendor, entry.cred, entry.now)) =>
        /\ pc = "authed"
        /\ grants = <<>>
        /\ ret = AccessToken(vendor, entry.cred)

C3_Witness ==
    /\ pc = "authed"
    /\ vendor = "fronius"
    /\ Valid(vendor, entry.cred, entry.now)
    /\ grants = <<>>
    /\ ret = 1

\* C4: a call made at the very second the access token expires makes a
\* token request and does not return the held access token.
C4_RefreshBoundary ==
    (/\ PostCall
     /\ AccessToken(vendor, entry.cred) # 0
     /\ AccessExpires(vendor, entry.cred) = entry.now) =>
        /\ Len(grants) = 1
        /\ ret # AccessToken(vendor, entry.cred)

C4_Witness ==
    /\ pc = "authed"
    /\ vendor = "smartflow"
    /\ entry.cred.access_token = 1
    /\ entry.cred.access_expires = entry.now
    /\ Len(grants) = 1
    /\ ret = 2

\* The access token has expired and the refresh token, where its expiry is
\* tracked, has not.
AccessExpired(v, c, t) ==
    /\ AccessToken(v, c) # 0
    /\ AccessExpires(v, c) <= t
    /\ v = "smartflow" => t < c.refresh_expires

\* C5: with an expired access token and a usable refresh token the call
\* makes exactly one request, the refresh grant carrying the held refresh
\* token, and a call that returns leaves a valid credential.
C5_AccessExpiredRefreshes ==
    (/\ PostCall
     /\ vendor \in {"smartflow", "fronius"}
     /\ AccessExpired(vendor, entry.cred, entry.now)) =>
        /\ Len(grants) = 1
        /\ grants[1].grant = "refresh"
        /\ grants[1].refresh_token = entry.cred.refresh_token
        /\ pc = "authed" => Valid(vendor, token_info, now)

C5_Witness ==
    /\ pc = "authed"
    /\ vendor = "fronius"
    /\ AccessExpired(vendor, entry.cred, entry.now)
    /\ grants = <<Request("refresh", 1, 200)>>
    /\ Valid(vendor, token_info, now)

\* C6: SmartFlow, holding a credential whose refresh expiry has been
\* reached, makes exactly one request, the password grant, and a call that
\* returns leaves a valid credential.
C6_RefreshExpiredRelogin ==
    (/\ PostCall
     /\ vendor = "smartflow"
     /\ entry.cred.access_token # 0
     /\ entry.now >= entry.cred.refresh_expires) =>
        /\ Len(grants) = 1
        /\ grants[1].grant = "password"
        /\ pc = "authed" => Valid(vendor, token_info, now)

C6_Witness ==
    /\ pc = "authed"
    /\ vendor = "smartflow"
    /\ entry.cred.access_token # 0
    /\ entry.now = entry.cred.refresh_expires
    /\ Len(grants) = 1
    /\ grants[1].grant = "password"
    /\ Valid(vendor, token_info, now)

\* C7: a call that returns after a token request leaves a valid credential
\* that is also the content of the token file, and from the empty
\* credential the one request made is the password grant.
C7_ExchangeLeavesValid ==
    (pc = "authed" /\ grants # <<>>) =>
        /\ Valid(vendor, token_info, now)
        /\ slot = token_info
        /\ AccessToken(vendor, entry.cred) = 0 =>
             (Len(grants) = 1 /\ grants[1].grant = "password")

\* C8: a token request answered with a non-2xx status is the only one of
\* the invocation, get_active_token raises, and the invocation makes no
\* data request and no insert.
C8_AuthFailureFatal ==
    (grants # <<>> /\ Non2xx(grants[1].status)) =>
        /\ Len(grants) = 1
        /\ pc \in {"auth_failed", "done"}
        /\ ret = 0
        /\ data_requests = 0
        /\ store_writes = 0
        /\ pc = "done" => run_end = "auth_error"

C8_Witness ==
    /\ pc = "done"
    /\ run_end = "auth_error"
    /\ Len(grants) = 1
    /\ Non2xx(grants[1].status)
    /\ data_requests = 0
    /\ store_writes = 0

\* C9: an invocation that starts with a token file holding a credential
\* still valid makes no token request and returns that credential's token.
C9_LoadFirstReuse ==
    (PostCall /\ slot0 # NoFile /\ Valid(vendor, slot0, entry.now)) =>
        /\ pc = "authed"
        /\ grants = <<>>
        /\ ret = AccessToken(vendor, slot0)

\* C10: answers 500, 500, 200 make get_aggrdata return the third body
\* after exactly three requests.
C10_RetrySuccess ==
    (fetch.outcome # "none" /\ responses = <<500, 500, 200>>) =>
        /\ fetch.outcome = "returned"
        /\ fetch.payload = 3
        /\ fetch.requests = 3

RECURSIVE ChainLen(_, _)
ChainLen(srv, u) == IF srv[u].next = 0 THEN u ELSE ChainLen(srv, srv[u].next)

RECURSIVE ChainResults(_, _)
ChainResults(srv, n) ==
    IF n = 0 THEN <<>> ELSE ChainResults(srv, n - 1) \o srv[n].results

FetchComplete == page_pc \in {"returned", "parsed", "written", "skipped"}

\* C12: the pages of the chain are requested once each in chain order and
\* none after the first page without `next`; a fetch that returns gives the
\* pages' results concatenated in page order; nothing is parsed or written
\* before the last page of the chain has been fetched.
C12_Pagination ==
    /\ Len(requested) <= ChainLen(pages, 1)
    /\ \A i \in 1..Len(requested) : requested[i] = i
    /\ (FetchComplete /\ page_pc # "skipped") =>
          /\ Len(requested) = ChainLen(pages, 1)
          /\ all_results = ChainResults(pages, ChainLen(pages, 1))
    /\ (parsed # <<>> \/ page_writes > 0) =>
          /\ Len(requested) = ChainLen(pages, 1)
          /\ Len(parsed) = Len(ChainResults(pages, ChainLen(pages, 1)))

C12_Witness ==
    /\ page_pc = "written"
    /\ requested = <<1, 2>>
    /\ pages[2].next = 0
    /\ all_results = <<1, 2, 1>>
    /\ parsed = <<1000, 2000, 1000>>

\* C13: no unit's failure aborts the invocation, and at the end of the
\* loop every unit that did not fail has been fetched and processed.
C13_PerUnitIsolation ==
    /\ units_pc # "aborted"
    /\ units_pc = "done" =>
          \A u \in 1..Len(unit_events) :
              unit_events[u] = "ok" => u \in processed

SensorSet == get_unique_sensor_names(sensor_index)

KeyOf(slid) ==
    <<service_locations[slid].client_id, service_locations[slid].location_id>>

\* Pairs the store holds for the key of slid under the names resolved.
StoreRecords(slid) ==
    select_distinct(store, service_locations[slid].client_id,
                    service_locations[slid].location_id, SensorSet, ResolveNow)

\* slid got its entries from the bootstrap path of the running pass.
Bootstrapped(slid) ==
    /\ slid \in DOMAIN sensor_gateway_map
    /\ slid \in query_failed \/ StoreRecords(slid) = {}

\* slid got its entries from rows of the store.
Reused(slid) ==
    /\ slid \in DOMAIN sensor_gateway_map
    /\ slid \notin query_failed
    /\ StoreRecords(slid) # {}

\* C14: a service location whose store query failed gets no entry in the
\* result of the pass.
C14_ResolveErrorSkipsUnit ==
    \A slid \in query_failed : slid \notin DOMAIN sensor_gateway_map

\* Service locations of the key of slid that were bootstrapped before it.
EarlierBootstraps(slid) ==
    {o \in 1..(slid - 1) : Bootstrapped(o) /\ KeyOf(o) = KeyOf(slid)}

\* C15: a bootstrapped service location maps the i-th name of the
\* enumeration to sensor i under the next unused gateway label of its key,
\* "A" for the first; on an empty store the names L1, L2, L3 get gateway
\* "A" and sensors 1, 2, 3; and a second pass over the same inputs and
\* store, no query failing, allocates the same.
C15_DeterministicAllocation ==
    /\ \A slid \in DOMAIN sensor_gateway_map :
          Bootstrapped(slid) =>
            /\ Len(sensor_gateway_map[slid]) = Len(SensorSet)
            /\ \A i \in 1..Len(SensorSet) :
                  /\ sensor_gateway_map[slid][i].sensor_name = SensorSet[i]
                  /\ sensor_gateway_map[slid][i].sensor = i
                  /\ sensor_gateway_map[slid][i].gateway =
                       new_gateway_id(Cardinality(EarlierBootstraps(slid)))
            /\ (/\ store = {}
                 /\ SensorSet = <<"L1", "L2", "L3">>
                 /\ EarlierBootstraps(slid) = {}) =>
                  sensor_gateway_map[slid] =
                    << [sensor |-> 1, gateway |-> "A", sensor_name |-> "L1"],
                       [sensor |-> 2, gateway |-> "A", sensor_name |-> "L2"],
                       [sensor |-> 3, gateway |-> "A", sensor_name |-> "L3"] >>
    /\ (pass = 2 /\ res_pc = "done" /\ query_failed = {} /\ first_failed = {}) =>
          /\ DOMAIN first_map = DOMAIN sensor_gateway_map
          /\ \A slid \in DOMAIN sensor_gateway_map :
                Bootstrapped(slid) => first_map[slid] = sensor_gateway_map[slid]

C15_Witness ==
    /\ pass = 2
    /\ res_pc = "done"
    /\ store = {}
    /\ SensorSet = <<"L1", "L2", "L3">>
    /\ 1 \in DOMAIN sensor_gateway_map
    /\ sensor_gateway_map[1][3] =
         [sensor |-> 3, gateway |-> "A", sensor_name |-> "L3"]
    /\ first_map = sensor_gateway_map

\* C16: in the result of a pass, entries of service locations of one
\* (client_id, location_id) with different sensor names never carry the
\* same (gateway, sensor) pair.
C16_SensorMappingInvariant ==
    \A s1, s2 \in DOMAIN sensor_gateway_map :
        KeyOf(s1) = KeyOf(s2) =>
            \A i \in 1..Len(sensor_gateway_map[s1]) :
            \A j \in 1..Len(sensor_gateway_map[s2]) :
                LET e1 == sensor_gateway_map[s1][i]
                    e2 == sensor_gateway_map[s2][j]
                IN  e1.sensor_name # e2.sensor_name =>
                        <<e1.gateway, e1.sensor>> # <<e2.gateway, e2.sensor>>

\* Rows of the store the query of slid matches for one sensor name.
MatchingRows(slid, name) ==
    {r \in store : /\ <<r.client_id, r.location_id>> = KeyOf(slid)
                   /\ r.note = name
                   /\ in_lookback(r, ResolveNow)}

\* (gateway, sensor) pairs of the latest of these rows.
MostRecentPairs(slid, name) ==
    {<<r.gateway, r.sensor>> :
        r \in {x \in MatchingRows(slid, name) :
                 \A y \in MatchingRows(slid, name) : y.time <= x.time}}

\* The pair _write_to_tsdb uses for a name: that of the first entry of the
\* service location that carries the name.
FirstMatch(entries, name) ==
    LET hits == {i \in 1..Len(entries) : entries[i].sensor_name = name}
        i0   == CHOOSE i \in hits : \A k \in hits : i <= k
    IN  <<entries[i0].gateway, entries[i0].sensor>>

\* C17: on the reuse path every sensor name with a matching row is mapped
\* to the (gateway, sensor) pair of its most recent matching row.
C17_ReuseMostRecent ==
    \A slid \in DOMAIN sensor_gateway_map :
        Reused(slid) =>
            \A name \in Range(SensorSet) :
                MatchingRows(slid, name) # {} =>
                    FirstMatch(sensor_gateway_map[slid], name)
                        \in MostRecentPairs(slid, name)

\* The token file is absent or holds a whole credential.
SlotIntact == save_file = NoPath \/ save_file.len = MaxChunks

\* C18: whenever the process dies inside a save, the token file is absent
\* or holds the whole previous or the whole new credential.
C18_AtomicSave ==
    save_pc = "crashed" =>
        /\ SlotIntact
        /\ save_file # NoPath => save_file.cred \in OldCreds \cup {save_cred}

\* The token file holds an object with every key present and well-typed.
WellFormed(sl) ==
    /\ sl \notin {NoFile, Unparseable, NonObject}
    /\ \A k \in DOMAIN sl : sl[k] \notin {MISSING, ILL}

\* C19: a fresh process that finds the token file absent, unparseable, not
\* an object, or an object with missing or ill-typed keys behaves as on a
\* cache miss: it makes the password grant, uses nothing of the file, and
\* fails only if that grant is refused.
C19_TolerantLoad ==
    (PostCall /\ ~ WellFormed(slot0)) =>
        /\ Len(grants) = 1
        /\ grants[1].grant = "password"
        /\ pc = "auth_failed" => Non2xx(grants[1].status)

\* C20: an invocation whose refresh grant was refused ends with the token
\* file removed.
C20_DiscardOnRefreshFailure ==
    (/\ pc = "done"
     /\ grants # <<>>
     /\ grants[1].grant = "refresh"
     /\ Non2xx(grants[1].status)) =>
        slot = NoFile

\* The refresh expiry of a SmartFlow credential is not before its access
\* expiry.
ExpiriesOrdered(c) == c.refresh_expires >= c.access_expires

\* C21: every SmartFlow credential, in memory before and after the load and
\* after an exchange, and in the token file, has refresh_expires >=
\* access_expires.
C21_CredentialInvariant ==
    vendor = "smartflow" =>
        /\ ExpiriesOrdered(token_info)
        /\ ExpiriesOrdered(entry.cred)
        /\ slot # NoFile => ExpiriesOrdered(slot)
        /\ slot0 # NoFile => ExpiriesOrdered(slot0)

C21_Witness ==
    /\ vendor = "smartflow"
    /\ pc = "authed"
    /\ slot0 # NoFile
    /\ entry.cred = slot0
    /\ grants # <<>>
    /\ slot = token_info
    /\ token_info.access_expires = now + ACCESS_LIFETIME
    /\ token_info.refresh_expires = now + REFRESH_LIFETIME

\* A channel that yields a row: it has a name with a mapping and a value
\* that is a number or null.
MappedChannel(ch) == ch.channelName \in DOMAIN METRICS_MAP
GoodChannel(ch) == MappedChannel(ch) /\ ch.value.kind # "text"

\* A reading with a numeric consumption and an ISO interval_end.
GoodReading(r) == r.consumption.kind = "num" /\ r.interval_end.kind = "iso"

\* The instant an ISO text denotes, in seconds of UTC.
InstantOf(ts) ==
    ts.wall - (IF ts.suffix = "Z" THEN 0 ELSE utc_offset[ts.suffix])

SolarCall == norm_fn = "generate_tsdb_inserts" /\ norm_in.kind = "entry"
ConsumptionCall == norm_fn = "_parse_consumption_results"

\* C22: a malformed record is skipped alone: the normalizer returns one row
\* for every well-formed record of the payload, those before and those
\* after a malformed one, and does not fail.
C22_ErrorIsolation ==
    /\ SolarCall =>
         LET good == SelectSeq(norm_in.channels, GoodChannel)
         IN  /\ Len(norm_out) = Len(good)
             /\ \A k \in 1..Len(good) :
                  norm_out[k].note = good[k].channelName
    /\ ConsumptionCall =>
         /\ ~ norm_raised
         /\ Len(norm_out) = Len(SelectSeq(norm_in, GoodReading))

\* C23: when no mapped channel carries a non-numeric text, the rows are the
\* mapped channels in payload order: value the channel's value (0 for
\* null), sensor the number of the mapped id, note the channel name, and
\* the client, location, gateway, metric and time of the call; channels
\* without a mapping or a name add nothing.
C23_SolarNormalization ==
    (SolarCall /\ \A i \in 1..Len(norm_in.channels) :
                     MappedChannel(norm_in.channels[i])
                         => norm_in.channels[i].value.kind # "text") =>
        LET mapped == SelectSeq(norm_in.channels, MappedChannel)
        IN  /\ Len(norm_out) = Len(mapped)
            /\ \A k \in 1..Len(mapped) :
                 /\ norm_out[k].note = mapped[k].channelName
                 /\ norm_out[k].value =
                        (IF mapped[k].value.kind = "num"
                         THEN mapped[k].value.v ELSE 0)
                 /\ mapped[k].channelName = "EnergyProductionTotal"
                        => norm_out[k].sensor = 8
                 /\ mapped[k].channelName = "EnergyPurchased"
                        => norm_out[k].sensor = 5
                 /\ norm_out[k].metric = "solar"
                 /\ norm_out[k].client_id = CLIENT_ID
                 /\ norm_out[k].location_id = LOCATION_ID
                 /\ norm_out[k].gateway = "A"
                 /\ norm_out[k].time = norm_ts

C23_Witness ==
    /\ SolarCall
    /\ Len(norm_in.channels) = 3
    /\ norm_in.channels[1].channelName = "EnergyOther"
    /\ norm_in.channels[1].value = Text
    /\ norm_in.channels[2] =
           [channelName |-> "EnergyProductionTotal", value |-> Num(125)]
    /\ norm_in.channels[3].channelName = "EnergyPurchased"
    /\ Len(norm_out) = 2
    /\ norm_out[1].value = 125
    /\ norm_out[1].sensor = 8

\* C24: every well-formed reading yields the value consumption * 1000 and a
\* time that is the instant of interval_end in UTC, printed with the offset
\* +00:00.
C24_ConsumptionNormalization ==
    (ConsumptionCall /\ \A i \in 1..Len(norm_in) : GoodReading(norm_in[i])) =>
        /\ ~ norm_raised
        /\ Len(norm_out) = Len(norm_in)
        /\ \A i \in 1..Len(norm_in) :
             /\ norm_out[i].value = Num(norm_in[i].consumption.v * 1000)
             /\ norm_out[i].time =
                    Iso(InstantOf(norm_in[i].interval_end), "+00:00")

\* C25: a write of the empty row sequence ends as a success, opens no
\* database connection and leaves the table as it was.
C25_EmptyInputNoOp ==
    (write_ok # "none" /\ batch = <<>>) =>
        /\ write_ok = "ok"
        /\ ~ db_called
        /\ store = pre_store

C25_Witness ==
    /\ batch = <<>>
    /\ write_ok = "ok"
    /\ ~ db_called
    /\ store # {}
    /\ store = pre_store

\* C26: after a failed write the table is as it was before the write, and
\* what the handler gets back differs from what a successful write hands
\* back (None).
C26_AtomicFailureReported ==
    write_ok = "failed" =>
        /\ store = pre_store
        /\ write_ret # "None"

\* The table the direct strategy leaves: executemany in one transaction.
DirectResult(tbl, rows) == executemany(tbl, rows)

\* The table the staged strategy leaves: COPY, then INSERT ... SELECT, in one
\* transaction that is rolled back when COPY raises.
StagedResult(tbl, rows) ==
    LET staged == copy_to_temp(rows)
    IN  IF staged.ok THEN insert_select(tbl, staged.rows) ELSE tbl

\* C28: for the table and the batch of any write, the direct batched insert
\* and COPY-then-INSERT ... SELECT leave the same table.
C28_StrategyEquivalence ==
    write_ok # "none" =>
        DirectResult(pre_store, batch) = StagedResult(pre_store, batch)

\* C27: once an invocation whose fetch and write succeed has followed an
\* invocation whose write failed, the table holds every row the failed
\* invocation would have written.
C27_RecoveryOnNextRun ==
    job_pc = "recovered" => owed \subseteq main

\* Natural keys of a set or a sequence of rows.
KeysOf(rows) == {NaturalKey(r) : r \in rows}
BatchKeys(w) == {NaturalKey(wr_batch[w][i]) : i \in 1..Len(wr_batch[w])}

\* Rows of the table that are committed.
StoredRows == {e.row : e \in {x \in wr_table : x.by = Committed}}

\* C29: in every state reached by interleaving the inserts of two
\* overlapping invocations no natural key is held by two rows of the table,
\* and once both writes have ended the stored keys are those stored before
\* together with the keys of every batch whose write was committed.
C29_OverlappingWrites ==
    /\ \A e1, e2 \in wr_table : SameKey(e1.row, e2.row) => e1 = e2
    /\ (wr_state # <<>> /\ \A w \in Writers :
                               wr_state[w] \in {"committed", "failed"}) =>
          KeysOf(StoredRows) =
              KeysOf(wr_init) \cup
              UNION {BatchKeys(w) : w \in {v \in Writers :
                                             wr_state[v] = "committed"}}

C29_Witness ==
    /\ wr_state = [w \in Writers |-> "committed"]
    /\ wr_waited
    /\ BatchKeys(1) \cap BatchKeys(2) # {}
    /\ Row(1, 10, "L1") \in StoredRows
    /\ Row(2, 20, "L1") \in StoredRows

\* A text that is one credential, whole.
CompleteText(text) == \E c \in 1..3 : text = CredText(c)

\* C30: whatever the interleaving of the loads, saves and clears of two
\* invocations, every load, theirs and the one of the invocation after
\* them, finds no token file or a file holding one complete credential.
C30_LoadSeesWholeCredential ==
    \A p \in DOMAIN cache_proc :
        cache_proc[p].seen.kind = "file"
            => CompleteText(cache_proc[p].seen.text)

\* The token file cannot be read as a credential: it is absent, or its text
\* is not a JSON object.
SlotUnreadable(sl) == sl \in {NoFile, Unparseable, NonObject}

\* C31: a call of get_active_token that finds the token file absent or
\* unreadable holds no credential after its load step and performs a grant
\* exchange, whatever the process kept in memory from earlier invocations.
C31_NoStateOutlivesInvocation ==
    (PostCall /\ SlotUnreadable(slot0)) =>
        /\ AccessToken(vendor, entry.cred) = 0
        /\ grants # <<>>

\* Pairs written so far, at any time, for a name under the key of slid.
WrittenPairs(slid, name) ==
    {<<r.gateway, r.sensor>> :
        r \in {x \in store : /\ <<x.client_id, x.location_id>> = KeyOf(slid)
                             /\ x.note = name}}

\* The entries of slid carry the name.
Mapped(slid, name) ==
    \E i \in 1..Len(sensor_gateway_map[slid]) :
        sensor_gateway_map[slid][i].sensor_name = name

\* C32: once rows carrying one (gateway, sensor) pair for a sensor name of
\* a (client_id, location_id) have been written, every later resolution pass
\* whose store query succeeds and that maps the name maps it to that pair,
\* however old the rows are and whatever names the pass has seen.
C32_SensorIdentityStable ==
    \A slid \in DOMAIN sensor_gateway_map \ query_failed :
        \A name \in Range(SensorSet) :
            (Mapped(slid, name) /\ Cardinality(WrittenPairs(slid, name)) = 1)
                => FirstMatch(sensor_gateway_map[slid], name)
                       \in WrittenPairs(slid, name)

\* Service locations of the key of slid bootstrapped earlier in the pass.
BootstrappedBefore(slid) ==
    {s \in DOMAIN sensor_gateway_map :
        s < slid /\ KeyOf(s) = KeyOf(slid) /\ Bootstrapped(s)}

\* C33: within one pass the k-th bootstrapped service location of a
\* (client_id, location_id) key carries the k-th label of the sequence on
\* all its entries: "A" for the first of every key, "B" for the second of
\* the same key, so no label is given twice to a key in the pass.
C33_LabelsPerKey ==
    \A slid \in DOMAIN sensor_gateway_map :
        Bootstrapped(slid) =>
            \A i \in 1..Len(sensor_gateway_map[slid]) :
                sensor_gateway_map[slid][i].gateway =
                    new_gateway_id(Cardinality(BootstrappedBefore(slid)))

\* Two service locations of one key were bootstrapped in the pass, the
\* first as gateway A and the second as gateway B.
C33_Witness ==
    /\ res_pc = "done"
    /\ DOMAIN sensor_gateway_map = {1, 2}
    /\ KeyOf(1) = KeyOf(2)
    /\ Bootstrapped(1) /\ Bootstrapped(2)
    /\ sensor_gateway_map[1][1].gateway = "A"
    /\ sensor_gateway_map[2][1].gateway = "B"

\* Two service locations of different keys were bootstrapped in the pass,
\* both as gateway A.
C33_WitnessTwoKeys ==
    /\ res_pc = "done"
    /\ DOMAIN sensor_gateway_map = {1, 2}
    /\ KeyOf(1) # KeyOf(2)
    /\ Bootstrapped(1) /\ Bootstrapped(2)
    /\ sensor_gateway_map[1][1].gateway = "A"
    /\ sensor_gateway_map[2][1].gateway = "A"

\* The label of the sequence A, ..., Z, AA, AB, ..., ZZ, AAA, ... at index n,
\* written out by its length.
LabelAt(n) ==
    IF n < 26 THEN Letters[n + 1]
    ELSE IF n < 26 + 26 * 26
    THEN Letters[((n - 26) \div 26) + 1] \o Letters[((n - 26) % 26) + 1]
    ELSE Letters[((n - 702) \div 676) + 1]
             \o Letters[(((n - 702) \div 26) % 26) + 1]
             \o Letters[((n - 702) % 26) + 1]

\* C34: new_gateway_id returns for every index 0, 1, ... the label at that
\* place of the sequence A, ..., Z, AA, AB, ..., ZZ, AAA, ..., and no other
\* index gets the same label.
C34_LabelSequence ==
    label_out # <<>> =>
        /\ label_out[1] = LabelAt(label_n)
        /\ label_n = 0 => label_out[1] = "A"
        /\ label_n = 25 => label_out[1] = "Z"
        /\ label_n = 26 => label_out[1] = "AA"
        /\ label_n = 27 => label_out[1] = "AB"
        /\ label_n = 701 => label_out[1] = "ZZ"
        /\ label_n = 702 => label_out[1] = "AAA"
        /\ \A m \in 0..MaxIndex :
               m # label_n => new_gateway_id(m) # label_out[1]

\* Index 702 has been given the first three-letter label.
C34_Witness ==
    /\ label_n = 702
    /\ label_out = <<"AAA">>

\* The answer is a transient failure: a 5xx status or no response at all.
Transient(outcome) == outcome = 0 \/ outcome >= 500

\* C35: when every attempt fails transiently, get_aggrdata makes exactly
\* MAX_RETRIES requests, waits 5 s and then 10 s between them and not after
\* the last, and returns None instead of raising.
C35_RetryExhaustion ==
    (fetch.outcome # "none" /\ \A k \in 1..MAX_RETRIES : Transient(responses[k]))
        => /\ fetch.outcome = "returned"
           /\ fetch.payload = 0
           /\ fetch.requests = MAX_RETRIES
           /\ fetch.waits = <<BACKOFF_SECS, 2 * BACKOFF_SECS>>

\* The call of get_active_token ended with a refused grant exchange.
ExchangeFailed ==
    /\ pc = "auth_failed"
    /\ grants # <<>>
    /\ raise_for_status(grants[Len(grants)].status)

\* C36 as stated: after a refused grant exchange the credential in memory
\* and the token file are what they were before get_active_token was called.
C36_FailedExchangeChangesNothing ==
    ExchangeFailed => (token_info = entry.held /\ slot = slot0)

\* C36, amended: after a refused grant exchange the credential in memory is
\* the one the load step of the call left, and the token file is what it
\* was before the call.
C36_FailedExchangeKeepsLoaded ==
    ExchangeFailed => (token_info = entry.cred /\ slot = slot0)

\* A refresh exchange was refused with an expired credential loaded from
\* the token file.
C36_Witness ==
    /\ ExchangeFailed
    /\ grants[1].grant = "refresh"
    /\ slot0 # NoFile
    /\ token_info = slot0
    /\ slot = slot0

\* A password exchange of the Smappee broker was refused while it held an
\* expired credential.
C36_WitnessPassword ==
    /\ ExchangeFailed
    /\ vendor = "smappee_uae"
    /\ grants[1].grant = "password"
    /\ AccessToken(vendor, token_info) # 0

\* The SmartFlow rows stored for a device in the hour that holds time t.
HourRows(d, t) ==
    {r \in hour_store : r.gateway = d /\ r.time = time_text(floor_hour(t))}

\* C37: every SmartFlow invocation stamps its rows with its hour (the same
\* for both invocations of a clock hour) and builds at most one row per
\* device, with gateway = device id and sensor "1"; the table holds at most
\* one row per device and hour, and its value is the one of the first
\* committed write that carried a row for that device and hour, a 0 for a
\* response without usage data included.
C37_HourlyKeying ==
    /\ \A i \in 1..Len(hour_last.rows) :
         LET r == hour_last.rows[i]
         IN  /\ r.time = time_text(hour_last.at - (hour_last.at % 2))
             /\ r.gateway \in DeviceIds
             /\ r.sensor = "1"
             /\ \A j \in 1..Len(hour_last.rows) :
                  hour_last.rows[j].gateway = r.gateway => j = i
    /\ \A d \in DeviceIds : \A t \in 0..hour_clock :
         Cardinality(HourRows(d, t)) <= 1
    /\ \A r \in hour_store :
         /\ NaturalKey(r) \in DOMAIN hour_first
         /\ r.value = hour_first[NaturalKey(r)]

\* The second invocation of a clock hour built a row with a reading for a
\* device whose row of that hour, a 0 written by the first invocation for a
\* response without usage data, is the one the table keeps.
C37_Witness ==
    /\ hour_last.at % 2 = 1
    /\ hour_last.wrote = "ok"
    /\ \E i \in 1..Len(hour_last.rows) :
         /\ hour_last.rows[i].value = 7
         /\ \E r \in hour_store :
              /\ NaturalKey(r) = NaturalKey(hour_last.rows[i])
              /\ r.value = 0

\* Entries of the mapping for slid ([] when the pass gave it none).
EntriesOf(slid) ==
    IF slid \in DOMAIN sensor_gateway_map THEN sensor_gateway_map[slid]
    ELSE <<>>

\* Names for which a reading of slid becomes a row.
RowsBuilt(slid) ==
    rows_built(service_locations[slid], sensor_index[slid], EntriesOf(slid))

\* C38: when the store query of a service location returned rows, a name
\* of its index without a matching row has no entry in the mapping and no
\* row is built for its readings.
C38_ReuseNeverAllocates ==
    \A slid \in DOMAIN sensor_gateway_map :
        Reused(slid) =>
            \A name \in Range(sensor_index[slid]) :
                MatchingRows(slid, name) = {} =>
                    /\ ~ Mapped(slid, name)
                    /\ name \notin RowsBuilt(slid)

\* A reused service location: one of its names has stored rows and gets a
\* row, another has none and is skipped.
C38_Witness ==
    /\ res_pc = "done"
    /\ \E slid \in DOMAIN sensor_gateway_map :
         /\ Reused(slid)
         /\ \E n1, n2 \in Range(sensor_index[slid]) :
              /\ MatchingRows(slid, n1) # {}
              /\ n1 \in RowsBuilt(slid)
              /\ MatchingRows(slid, n2) = {}
              /\ n2 \notin RowsBuilt(slid)

\* The step is the call of get_active_token that opens a SmartFlow invocation.
SmartflowStarts ==
    /\ vendor = "smartflow"
    /\ Ready
    /\ pc' \in {"authed", "auth_failed"}

\* The step is the rest of a SmartFlow invocation after its token.
SmartflowPipelineEnds ==
    /\ vendor = "smartflow"
    /\ pc = "authed"
    /\ pc' = "done"

C39_WitnessRefresh ==
    /\ vendor = "smartflow"
    /\ PostCall
    /\ slot0 # NoFile
    /\ grants # <<>>
    /\ grants[1].grant = "refresh"

====
